---- MODULE Spec2Model ----
(***************************************************************************)
(* A model of the plugin process runtime of widget-board:                  *)
(*   - the update scheduler        (src/core/update_manager.py)            *)
(*   - the plugin supervisor       (src/plugins_host/supervisor.py)        *)
(*   - the worker message loop     (src/plugins_host/worker.py)            *)
(*   - the REQ/REP transport       (src/ipc/zmq_transport.py)              *)
(*   - the message envelope        (src/ipc/message_schema.py)             *)
(* Each component has its own specification over its own variables; the    *)
(* variables of the other components stay unchanged.                       *)
(***************************************************************************)
EXTENDS Integers, Sequences, FiniteSets, TLC

VARIABLES
    \* --- update scheduler (UpdateManager) ---
    um_now,             \* datetime.now(), in milliseconds
    configs,            \* UpdateManager._configs: instance_id -> ThrottleConfig
    last_update,        \* UpdateManager._last_update: instance_id -> time
    pending,            \* UpdateManager._pending, in dict insertion order
    visible_instances,  \* UpdateManager._visible_instances
    um_calls,           \* history: request_update calls of the current in-window burst
    um_first,           \* history: time of the first call of the current burst
    um_prev,            \* history: time of the last dispatch since reset_throttle, or -1
    um_ndisp,           \* history: dispatches (counted up to 2) since reset_throttle
    \* --- supervisor (PluginSupervisor), one worker process per spawn ---
    processes,          \* PluginSupervisor.processes: instance_id -> PluginProcess
    next_port,          \* PluginSupervisor._next_port
    proc,               \* port -> state of the OS process started for that endpoint
    sock,               \* port -> state of the host-side REQ transport to that endpoint
    wk,                 \* port -> state of the PluginWorker in that process
                        \*         (NewWorker when no such process runs)
    inbox,              \* port -> request delivered to the worker and not handled yet
    last,               \* the last supervisor call: operation, return value, records removed
    \* --- one message envelope on its way through the wire format ---
    msg,                \* the IPCMessage that is serialized
    wire,               \* the JSON text of to_json(), as a sequence of characters
    decoded,            \* what from_json() made of the text
    msg_pc,             \* "built", "encoded" or "decoded"
    \* --- one worker process running PluginWorker.run() ---
    worker,             \* the PluginWorker: plugin reference, lifecycle state, running
    rep,                \* the worker's REP socket: "none", "recv" (a request may be
                        \* received), "must_send" (a request was received and not
                        \* answered), "closed", "unbound" (bind failed)
    w_pc,               \* "start" before the transport is bound, "loop" while run()
                        \* is in its message loop, then "exited"
    w_exit,             \* history: what _cleanup did when run() ended
    n_req,              \* history: requests the worker received from the socket
    n_rep,              \* history: replies the worker sent
    w_last,             \* history: the last loop iteration: request, reply, handler raised
    \* --- one plugin object (PluginBase) ---
    pl_state,           \* PluginBase._state
    pl_id,              \* PluginBase._instance_id
    pl_settings,        \* PluginBase._settings
    pl_call,            \* history: the last lifecycle method called
    pl_calls,           \* history: the number of lifecycle calls
    \* --- grid layout (GridController) ---
    current_page,       \* GridController.current_page: the page's id, or "None"
    tiles_by_page,      \* GridController.tiles_by_page: page id -> list of tiles
    g_last,             \* history: the last call: operation and return value
    \* --- one call of terminate_plugin, step by step ---
    t_pc,               \* the position in terminate_plugin ("idle" between calls)
    t_proc,             \* the worker process: "running" or "exited"
    t_sock,             \* the record's REQ transport: "ready", "awaiting", "closed"
    t_log,              \* history: the calls terminate_plugin has made, in order
    t_count,            \* history: the number of terminate_plugin calls begun
    \* --- plugin proxy (PluginProxy) ---
    px_initialized,     \* self._initialized
    px_settings,        \* self.settings
    px_disposed,        \* history: dispose has terminated the proxy's instance
    px_last,            \* history: the last call: operation, outcome, supervisor calls
    \* --- update scheduler with listeners that call back ---
    um_lifted,          \* history: instances whose running throttle reset_throttle lifted
    um_tick,            \* history: how the last tick ended: "none", "ok", "raised"
    \* --- plugin instances of one worker ---
    w_disposals         \* history: per instance constructed, in order, the disposes run on it

umVars == <<um_now, configs, last_update, pending, visible_instances,
            um_calls, um_first, um_prev, um_ndisp>>

supVars == <<processes, next_port, proc, sock, wk, inbox, last>>

msgVars == <<msg, wire, decoded, msg_pc>>

loopVars == <<worker, rep, w_pc, w_exit, n_req, n_rep, w_last, w_disposals>>

plVars == <<pl_state, pl_id, pl_settings, pl_call, pl_calls>>

gridVars == <<current_page, tiles_by_page, g_last>>

termVars == <<t_pc, t_proc, t_sock, t_log, t_count>>

pxVars == <<px_initialized, px_settings, px_disposed, px_last>>

hookVars == <<um_lifted, um_tick>>

vars == <<umVars, supVars, msgVars, loopVars, plVars, gridVars, termVars, pxVars,
          hookVars>>

\* What the steps of one component leave unchanged: the other components.
UMFrame == UNCHANGED <<supVars, msgVars, loopVars, plVars, gridVars, termVars, pxVars, hookVars>>
SupFrame == UNCHANGED <<umVars, msgVars, loopVars, plVars, gridVars, termVars, pxVars, hookVars>>
MsgFrame == UNCHANGED <<umVars, supVars, loopVars, plVars, gridVars, termVars, pxVars, hookVars>>
LoopFrame == UNCHANGED <<umVars, supVars, msgVars, plVars, gridVars, termVars, pxVars, hookVars>>
PlFrame == UNCHANGED <<umVars, supVars, msgVars, loopVars, gridVars, termVars, pxVars, hookVars>>
GridFrame == UNCHANGED <<umVars, supVars, msgVars, loopVars, plVars, termVars, pxVars, hookVars>>
TermFrame == UNCHANGED <<umVars, supVars, msgVars, loopVars, plVars, gridVars, pxVars, hookVars>>
\* A proxy call changes the proxy and, through the supervisor, the workers.
PxFrame == UNCHANGED <<umVars, msgVars, loopVars, plVars, gridVars, termVars, hookVars>>
\* A scheduler call with its history of listeners and lifted throttles.
HookFrame == UNCHANGED <<supVars, msgVars, loopVars, plVars, gridVars, termVars, pxVars>>

(***************************************************************************)
(* Update scheduler                                                        *)
(***************************************************************************)

\* Bounds of the scheduler model.
MaxTime == 300
MaxCoalesced == 2

UMInstanceIds == {"clock_001", "links_001"}
Reasons == {"timer", "user"}
ClockSteps == {100}

\* ThrottleConfig(): the dataclass defaults.
ThrottleConfig ==
    [min_interval_ms |-> 1000, max_pending |-> 3, coalesce_window_ms |-> 100]

\* The instances set_throttle_config is called for, and the configurations it
\* is called with. As in tests/test_m5_integration.py one instance is
\* configured (tighter than the defaults, so that its throttle interval elapses
\* within MaxTime) and the other runs on ThrottleConfig().
ConfiguredIds == {"clock_001"}
ConfigChoices ==
    { [min_interval_ms |-> 200, max_pending |-> 1, coalesce_window_ms |-> 100] }

\* self._configs.get(instance_id, ThrottleConfig())
ConfigOf(i) == IF i \in DOMAIN configs THEN configs[i] ELSE ThrottleConfig

\* UpdateRequest(instance_id, reason, requested_at, coalesced_count=0)
UpdateRequest(i, r, t) ==
    [instance_id |-> i, reason |-> r, requested_at |-> t, coalesced_count |-> 0]

PendingIds == { pending[k].instance_id : k \in DOMAIN pending }
IsPending(i) == i \in PendingIds
PendingIndex(i) == CHOOSE k \in DOMAIN pending : pending[k].instance_id = i
PendingOf(i) == pending[PendingIndex(i)]

\* d[key] = value on a dict kept in insertion order: an existing key keeps its
\* place, a new key goes last.
DictSet(d, e) ==
    IF \E k \in DOMAIN d : d[k].instance_id = e.instance_id
    THEN [k \in DOMAIN d |-> IF d[k].instance_id = e.instance_id THEN e ELSE d[k]]
    ELSE Append(d, e)

\* The dict left as it is.
DictKeep(d, i) == d
\* del d[key]
DictDel(d, i) == SelectSeq(d, LAMBDA e : e.instance_id # i)

\* request_update(instance_id, reason) at time now on the pending map p: the
\* value of the map afterwards.
RequestUpdateOn(p, i, r, now) ==
    LET config == ConfigOf(i)
        has == \E k \in DOMAIN p : p[k].instance_id = i
        old == p[CHOOSE k \in DOMAIN p : p[k].instance_id = i]
    IN
    IF has /\ now - old.requested_at < config.coalesce_window_ms
    THEN DictSet(p, [old EXCEPT !.coalesced_count = @ + 1])
    ELSE IF has /\ old.coalesced_count >= config.max_pending
    THEN p
    ELSE DictSet(p, UpdateRequest(i, r, now))

\* The value of self._pending after request_update(instance_id, reason) at
\* time now.
RequestUpdateBuggyCap(i, r, now) ==
    LET config == ConfigOf(i) IN
    IF IsPending(i) /\ PendingOf(i).coalesced_count >= config.max_pending
    THEN pending
    ELSE IF IsPending(i) /\ now - PendingOf(i).requested_at < config.coalesce_window_ms
    THEN DictSet(pending, [PendingOf(i) EXCEPT !.coalesced_count = @ + 1])
    ELSE DictSet(pending, UpdateRequest(i, r, now))

RequestUpdateResult(i, r, now) ==
    LET config == ConfigOf(i) IN
    IF IsPending(i) /\ now - PendingOf(i).requested_at < config.coalesce_window_ms
    THEN \* coalesce: just increment the counter
         DictSet(pending, [PendingOf(i) EXCEPT !.coalesced_count = @ + 1])
    ELSE IF IsPending(i) /\ PendingOf(i).coalesced_count >= config.max_pending
    THEN \* queue full: drop
         pending
    ELSE DictSet(pending, UpdateRequest(i, r, now))

\* Whether a call made now falls in the coalesce window of the burst that
\* started at um_first[i].
InBurst(i) ==
    /\ um_calls[i] >= 1
    /\ um_now - um_first[i] < ConfigOf(i).coalesce_window_ms

\* The body of request_update, on the scheduler's own state.
RequestUpdate(i, r) ==
    /\ IsPending(i) => PendingOf(i).coalesced_count < MaxCoalesced
    /\ pending' = RequestUpdateResult(i, r, um_now)
    /\ um_calls' = [um_calls EXCEPT ![i] =
                       IF ~IsPending(i) THEN 1
                       ELSE IF InBurst(i) THEN @ + 1
                       ELSE -1]
    /\ um_first' = [um_first EXCEPT ![i] =
                       IF ~IsPending(i) THEN um_now
                       ELSE IF InBurst(i) THEN @
                       ELSE 0]
    /\ UNCHANGED <<um_now, configs, last_update, visible_instances, um_prev, um_ndisp>>

request_update(i, r) ==
    /\ RequestUpdate(i, r)
    /\ UMFrame

set_throttle_config(i, c) ==
    /\ configs' = [j \in DOMAIN configs \cup {i} |-> IF j = i THEN c ELSE configs[j]]
    /\ UNCHANGED <<um_now, last_update, pending, visible_instances,
                   um_calls, um_first, um_prev, um_ndisp>>
    /\ UMFrame

set_visible_instances(ids) ==
    /\ visible_instances' = ids
    /\ UNCHANGED <<um_now, configs, last_update, pending,
                   um_calls, um_first, um_prev, um_ndisp>>
    /\ UMFrame

\* The visible instances only: the hidden ones are not considered.
SortVisibleOnly(items) ==
    SelectSeq(items, LAMBDA e : e.instance_id \in visible_instances)
\* pending_items.sort(key=lambda x: x[0] not in self._visible_instances):
\* a stable sort on a boolean key.
SortVisibleFirst(items) ==
    SelectSeq(items, LAMBDA e : e.instance_id \in visible_instances)
      \o SelectSeq(items, LAMBDA e : e.instance_id \notin visible_instances)

\* The throttle check of _process_queue: the instance has a last update less
\* than min_interval_ms ago.
ThrottledNever(i, now) == FALSE

Throttled(i, now) ==
    /\ i \in DOMAIN last_update
    /\ now - last_update[i] < ConfigOf(i).min_interval_ms

\* A tick that stops after the first instance it dispatches.
DispatchedFirst(now) ==
    LET all == SelectSeq(SortVisibleFirst(pending), LAMBDA e : ~Throttled(e.instance_id, now))
    IN IF all = <<>> THEN <<>> ELSE <<all[1]>>
\* The list `dispatched` of _process_queue, in emission order.
Dispatched(now) ==
    SelectSeq(SortVisibleFirst(pending), LAMBDA e : ~Throttled(e.instance_id, now))

DispatchedIds(now) == { Dispatched(now)[k].instance_id : k \in DOMAIN Dispatched(now) }

UpTo2(n) == IF n >= 2 THEN 2 ELSE n

\* The body of _process_queue, with listeners that do not call back.
ProcessQueue ==
    LET now == um_now
        ids == DispatchedIds(now)
    IN
    /\ last_update' = [i \in DOMAIN last_update \cup ids |->
                          IF i \in ids THEN now ELSE last_update[i]]
    /\ pending' = SelectSeq(pending, LAMBDA e : e.instance_id \notin ids)
    /\ um_calls' = [i \in UMInstanceIds |-> IF i \in ids THEN 0 ELSE um_calls[i]]
    /\ um_first' = [i \in UMInstanceIds |-> IF i \in ids THEN 0 ELSE um_first[i]]
    /\ um_prev' = [i \in UMInstanceIds |-> IF i \in ids THEN now ELSE um_prev[i]]
    /\ um_ndisp' = [i \in UMInstanceIds |->
                       IF i \in ids THEN UpTo2(um_ndisp[i] + 1) ELSE um_ndisp[i]]
    /\ UNCHANGED <<um_now, configs, visible_instances>>

process_queue ==
    /\ ProcessQueue
    /\ UMFrame

ClearPending(i) ==
    /\ pending' = IF IsPending(i) THEN DictDel(pending, i) ELSE pending
    /\ um_calls' = [um_calls EXCEPT ![i] = 0]
    /\ um_first' = [um_first EXCEPT ![i] = 0]
    /\ UNCHANGED <<um_now, configs, last_update, visible_instances, um_prev, um_ndisp>>

clear_pending(i) ==
    /\ ClearPending(i)
    /\ UMFrame

ResetThrottle(i) ==
    /\ last_update' = [j \in DOMAIN last_update \ {i} |-> last_update[j]]
    /\ um_prev' = [um_prev EXCEPT ![i] = -1]
    /\ um_ndisp' = [um_ndisp EXCEPT ![i] = 0]
    /\ UNCHANGED <<um_now, configs, pending, visible_instances, um_calls, um_first>>

reset_throttle(i) ==
    /\ ResetThrottle(i)
    /\ UMFrame

\* The wall clock advances.
Advance(d) ==
    /\ um_now + d <= MaxTime
    /\ um_now' = um_now + d
    /\ UNCHANGED <<configs, last_update, pending, visible_instances,
                   um_calls, um_first, um_prev, um_ndisp>>

AdvanceClock(d) ==
    /\ Advance(d)
    /\ UMFrame

\* ---- listeners of update_dispatched that call back into the manager ----

\* What the listener does while instance i is being dispatched: nothing, or
\* request_update(i), or clear_pending(i).
ListenerCalls == {"none", "request_update", "clear_pending"}
Listeners == [UMInstanceIds -> ListenerCalls]

\* self._pending after the listener's call for the instance i being dispatched.
AfterListener(p, i, call, now) ==
    CASE call = "request_update" -> RequestUpdateOn(p, i, "user", now)
      [] call = "clear_pending" -> DictDel(p, i)
      [] OTHER -> p

\* self._pending after the dispatch loop: update_dispatched.emit runs the
\* listeners of d[k], d[k+1], ... in turn, inside the loop.
RECURSIVE AfterLoopOfTick(_, _, _, _, _)
AfterLoopOfTick(p, d, k, cb, now) ==
    IF k > Len(d) THEN p
    ELSE AfterLoopOfTick(AfterListener(p, d[k].instance_id, cb[d[k].instance_id], now),
                         d, k + 1, cb, now)

\* The deletion that skips an instance that is not pending any more.
RECURSIVE RemoveDispatchedIfThere(_, _, _)
RemoveDispatchedIfThere(p, d, k) ==
    IF k > Len(d) THEN [pending |-> p, raised |-> FALSE]
    ELSE RemoveDispatchedIfThere(DictDel(p, d[k].instance_id), d, k + 1)
\* for instance_id in dispatched: del self._pending[instance_id]
\* A KeyError ends the tick; the entries of the instances after it stay.
RECURSIVE RemoveDispatched(_, _, _)
RemoveDispatched(p, d, k) ==
    IF k > Len(d) THEN [pending |-> p, raised |-> FALSE]
    ELSE IF \A j \in DOMAIN p : p[j].instance_id # d[k].instance_id
    THEN [pending |-> p, raised |-> TRUE]
    ELSE RemoveDispatched(DictDel(p, d[k].instance_id), d, k + 1)

\* _process_queue with listeners cb connected to update_dispatched.
TickResult(cb, now) ==
    RemoveDispatched(AfterLoopOfTick(pending, Dispatched(now), 1, cb, now),
                     Dispatched(now), 1)

process_queue_listeners(cb) ==
    LET now == um_now
        ids == DispatchedIds(now)
        r == TickResult(cb, now)
    IN
    /\ last_update' = [i \in DOMAIN last_update \cup ids |->
                          IF i \in ids THEN now ELSE last_update[i]]
    /\ pending' = r.pending
    /\ um_tick' = IF r.raised THEN "raised" ELSE "ok"
    /\ um_lifted' = um_lifted \ ids
    /\ um_calls' = [i \in UMInstanceIds |-> IF i \in ids THEN 0 ELSE um_calls[i]]
    /\ um_first' = [i \in UMInstanceIds |-> IF i \in ids THEN 0 ELSE um_first[i]]
    /\ um_prev' = [i \in UMInstanceIds |-> IF i \in ids THEN now ELSE um_prev[i]]
    /\ um_ndisp' = [i \in UMInstanceIds |->
                       IF i \in ids THEN UpTo2(um_ndisp[i] + 1) ELSE um_ndisp[i]]
    /\ UNCHANGED <<um_now, configs, visible_instances>>
    /\ HookFrame

\* reset_throttle, with the record of the throttle it lifted.
reset_throttle_lifting(i) ==
    /\ ResetThrottle(i)
    /\ um_lifted' = IF Throttled(i, um_now) THEN um_lifted \cup {i} ELSE um_lifted
    /\ UNCHANGED um_tick
    /\ HookFrame

HookInit ==
    /\ um_lifted = {}
    /\ um_tick = "none"

\* The scheduler on its default configuration, in pending order; the callers
\* give the reason "timer", the listeners the default reason "user".
HookNext ==
    \/ \E i \in UMInstanceIds : request_update(i, "timer")
    \/ \E cb \in Listeners : process_queue_listeners(cb)
    \/ \E i \in UMInstanceIds : clear_pending(i)
    \/ \E i \in UMInstanceIds : reset_throttle_lifting(i)
    \/ \E d \in ClockSteps : AdvanceClock(d)

UMInit ==
    /\ um_now = 0
    /\ configs = << >>
    /\ last_update = << >>
    /\ pending = << >>
    /\ visible_instances = {}
    /\ um_calls = [i \in UMInstanceIds |-> 0]
    /\ um_first = [i \in UMInstanceIds |-> 0]
    /\ um_prev = [i \in UMInstanceIds |-> -1]
    /\ um_ndisp = [i \in UMInstanceIds |-> 0]

UMNext ==
    \/ \E i \in UMInstanceIds, r \in Reasons : request_update(i, r)
    \/ \E i \in ConfiguredIds, c \in ConfigChoices : set_throttle_config(i, c)
    \/ \E ids \in SUBSET UMInstanceIds : set_visible_instances(ids)
    \/ process_queue
    \/ \E i \in UMInstanceIds : clear_pending(i)
    \/ \E i \in UMInstanceIds : reset_throttle(i)
    \/ \E d \in ClockSteps : AdvanceClock(d)


(***************************************************************************)
(* Worker message handlers (PluginWorker)                                  *)
(***************************************************************************)

MessageTypes == {"INIT", "START", "UPDATE", "DISPOSE", "RENDER",
                 "SETTINGS_CHANGED", "ERROR", "HEARTBEAT", "SHUTDOWN"}

\* PluginWorker.__init__: no plugin, running.  state is the lifecycle state of
\* the plugin instance the worker holds ("none" when it holds no instance).
NewWorker ==
    [plugin |-> "None", state |-> "none", inited |-> FALSE, started |-> FALSE,
     running |-> TRUE]

PluginStates ==
    {"UNINITIALIZED", "INITIALIZED", "STARTED", "STOPPED", "DISPOSED", "ERROR"}

\* PluginBase.__init__: a new instance is UNINITIALIZED.
PluginNew == "UNINITIALIZED"

\* PluginBase.initialize: INITIALIZED, whatever the state was.
PluginInitialize(s) == "INITIALIZED"

\* The plugin's init: the instance becomes INITIALIZED.
PluginInit(s) == PluginInitialize(s)

\* PluginBase.start: STARTED from INITIALIZED or STOPPED, otherwise nothing.
PluginStart(s) == IF s \in {"INITIALIZED", "STOPPED"} THEN "STARTED" ELSE s

\* PluginBase.stop: STOPPED from STARTED, otherwise nothing.
PluginStop(s) == IF s = "STARTED" THEN "STOPPED" ELSE s

\* PluginBase.handle_error: ERROR, whatever the state was.
PluginHandleError(s) == "ERROR"

\* PluginBase.dispose: stop() if not yet disposed, then DISPOSED.
PluginDispose(s) == IF s # "DISPOSED" THEN "DISPOSED" ELSE s

\* What the hosted plugin code does when the worker calls into it: what the
\* injected factory _create_plugin_instance returns, and whether the plugin
\* method called by the handler raises.
Behaviours == [factory : {"instance", "none", "raises"}, call : {"ok", "raises"}]

\* The same, with a plugin method that raises after the base class method has
\* run (as ClockPlugin.start does when its timer cannot be created).
HostedBehaviours ==
    [factory : {"instance", "none", "raises"}, call : {"ok", "raises", "raises_late"}]

\* The behaviours that differ for a message of the given kind.
BehavioursFor(kind) ==
    { b \in Behaviours :
        /\ kind # "INIT" => b.factory = "instance"
        /\ (kind = "INIT" /\ b.factory # "instance") => b.call = "ok"
        /\ kind \in {"SHUTDOWN", "ERROR", "HEARTBEAT"} => b.call = "ok" }

\* The result of a handler: the worker afterwards and the reply it returns,
\* "raises" when the handler ends with an exception.
Reply(w, r) == [w |-> w, reply |-> r]

\* _handle_init: the result of the factory is stored in self.plugin before it
\* is tested and before the plugin's init is called.
handle_init(w, b) ==
    IF b.factory = "raises" THEN Reply(w, "raises")
    ELSE IF b.factory = "none"
    THEN Reply([w EXCEPT !.plugin = "None", !.state = "none",
                         !.inited = FALSE, !.started = FALSE], "error")
    ELSE IF b.call = "raises"
    THEN Reply([w EXCEPT !.plugin = "instance", !.state = PluginNew,
                         !.inited = FALSE, !.started = FALSE], "raises")
    ELSE IF b.call = "raises_late"
    THEN Reply([w EXCEPT !.plugin = "instance", !.state = PluginInit(PluginNew),
                         !.inited = FALSE, !.started = FALSE], "raises")
    ELSE Reply([w EXCEPT !.plugin = "instance", !.state = PluginInit(PluginNew),
                         !.inited = TRUE, !.started = FALSE], "ok")

\* _handle_start: only the presence of an instance is tested.
handle_start(w, b) ==
    IF w.plugin = "None" THEN Reply(w, "error")
    ELSE IF b.call = "raises" THEN Reply(w, "raises")
    ELSE IF b.call = "raises_late"
    THEN Reply([w EXCEPT !.state = PluginStart(w.state)], "raises")
    ELSE Reply([w EXCEPT !.state = PluginStart(w.state), !.started = TRUE], "ok")

\* _handle_update, _handle_render and _handle_settings_changed have one shape.
handle_call(w, b) ==
    IF w.plugin = "None" THEN Reply(w, "error")
    ELSE IF b.call \in {"raises", "raises_late"} THEN Reply(w, "raises")
    ELSE Reply(w, "ok")

\* _handle_dispose: the reference is cleared after the plugin's dispose returned.
handle_dispose(w, b) ==
    IF w.plugin = "None" THEN Reply(w, "ok")
    ELSE IF b.call = "raises" THEN Reply(w, "raises")
    ELSE IF b.call = "raises_late"
    THEN Reply([w EXCEPT !.state = PluginDispose(w.state)], "raises")
    ELSE Reply([w EXCEPT !.plugin = "None", !.state = "none",
                         !.inited = FALSE, !.started = FALSE], "ok")

handle_shutdown(w) == Reply([w EXCEPT !.running = FALSE], "ok")

\* The dispatch of _handle_message on the message type; a type without a
\* handler (ERROR, HEARTBEAT) gets an ERROR reply.
Dispatch(w, kind, b) ==
    CASE kind = "INIT" -> handle_init(w, b)
      [] kind = "START" -> handle_start(w, b)
      [] kind \in {"UPDATE", "RENDER", "SETTINGS_CHANGED"} -> handle_call(w, b)
      [] kind = "DISPOSE" -> handle_dispose(w, b)
      [] kind = "SHUTDOWN" -> handle_shutdown(w)
      [] OTHER -> Reply(w, "error")

\* The handler's exception leaving _handle_message.
Uncaught(h) == h
\* except Exception in _handle_message: the exception becomes an ERROR reply.
Caught(h) == IF h.reply = "raises" THEN Reply(h.w, "error") ELSE h

\* _handle_message: dispatch, with the exception of a handler caught.
handle_message(w, kind, b) == Caught(Dispatch(w, kind, b))

\* run(): the loop ends once a handler has cleared self.running; the worker
\* then cleans up and the process exits, taking its state with it.
AfterLoop(w) == IF w.running THEN w ELSE NewWorker

(***************************************************************************)
(* terminate_plugin, step by step                                          *)
(***************************************************************************)

\* Bound: the number of terminate_plugin calls.
MaxTerminations == 4

\* The step terminate_plugin takes after a wait, without the test of the
\* wait's outcome: the next signal is sent in any case.
AfterWaitAlways(pc, exited) ==
    IF pc = "wait2" THEN "terminate" ELSE "kill"
\* The step terminate_plugin takes after process.wait: on to transport.close
\* when the process has exited, into the except TimeoutExpired clause
\* (terminate after the first wait, kill after the second) otherwise.
AfterWait(pc, exited) ==
    IF exited THEN "close"
    ELSE IF pc = "wait2" THEN "terminate" ELSE "kill"

TermStep(pc, entry) ==
    /\ t_pc' = pc
    /\ t_log' = Append(t_log, entry)

\* terminate_plugin is called for an instance; the worker and the transport
\* are in some state.  An instance without a record: return at once.
TermBegin(tracked, pr, sk) ==
    /\ t_pc = "idle"
    /\ t_count < MaxTerminations
    /\ t_count' = t_count + 1
    /\ t_log' = <<>>
    /\ t_proc' = pr
    /\ t_sock' = sk
    /\ t_pc' = IF tracked THEN "send" ELSE "idle"
    /\ TermFrame

\* proc.transport.send(shutdown_msg, timeout_ms=1000)
TermSend ==
    /\ t_pc = "send"
    /\ TermStep("wait2", "send_shutdown")
    /\ t_sock' = IF t_sock = "ready" THEN "awaiting" ELSE t_sock
    /\ UNCHANGED <<t_proc, t_count>>
    /\ TermFrame

\* proc.process.wait(timeout=2.0) and proc.process.wait(timeout=1.0)
TermWait ==
    /\ t_pc \in {"wait2", "wait1"}
    /\ TermStep(AfterWait(t_pc, t_proc = "exited"),
                IF t_proc = "exited" THEN "exited" ELSE "timeout")
    /\ UNCHANGED <<t_proc, t_sock, t_count>>
    /\ TermFrame

\* proc.process.terminate(); an exception of it ends in the except clause.
TermTerminate(raises) ==
    /\ t_pc = "terminate"
    /\ TermStep(IF raises THEN "finally" ELSE "wait1", "terminate")
    /\ UNCHANGED <<t_proc, t_sock, t_count>>
    /\ TermFrame

\* proc.process.kill(): the process is gone, unless the call raises.
TermKill(raises) ==
    /\ t_pc = "kill"
    /\ TermStep(IF raises THEN "finally" ELSE "close", "kill")
    /\ t_proc' = IF raises THEN t_proc ELSE "exited"
    /\ UNCHANGED <<t_sock, t_count>>
    /\ TermFrame

\* proc.transport.close()
TermClose ==
    /\ t_pc = "close"
    /\ TermStep("finally", "close")
    /\ t_sock' = "closed"
    /\ UNCHANGED <<t_proc, t_count>>
    /\ TermFrame

\* finally: del self.processes[instance_id]
TermFinally ==
    /\ t_pc = "finally"
    /\ TermStep("idle", "del")
    /\ UNCHANGED <<t_proc, t_sock, t_count>>
    /\ TermFrame

\* The worker process exits while terminate_plugin is under way: it handled
\* SHUTDOWN, it received SIGTERM, or it crashed.
TermProcExits ==
    /\ t_pc \notin {"idle", "send"}
    /\ t_proc = "running"
    /\ t_proc' = "exited"
    /\ UNCHANGED <<t_pc, t_sock, t_log, t_count>>
    /\ TermFrame

TermInit ==
    /\ t_pc = "idle"
    /\ t_proc = "exited"
    /\ t_sock = "closed"
    /\ t_log = <<>>
    /\ t_count = 0

TermNext ==
    \/ \E tracked \in BOOLEAN, pr \in {"running", "exited"}, sk \in {"ready", "awaiting"} :
          TermBegin(tracked, pr, sk)
    \/ TermSend
    \/ TermWait
    \/ \E raises \in BOOLEAN : TermTerminate(raises)
    \/ \E raises \in BOOLEAN : TermKill(raises)
    \/ TermClose
    \/ TermFinally
    \/ TermProcExits

(***************************************************************************)
(* Plugin lifecycle (PluginBase)                                           *)
(***************************************************************************)

\* Bound: the number of lifecycle calls made on one plugin object.
MaxCalls == 4

PlInstanceIds == {"clock_1", "links_1"}
PlSettings == {"s1", "s2"}

\* A lifecycle call: the method, the new state, instance id and settings.
PlCall(name, state, id, settings) ==
    /\ pl_calls < MaxCalls
    /\ pl_calls' = pl_calls + 1
    /\ pl_call' = name
    /\ pl_state' = state
    /\ pl_id' = id
    /\ pl_settings' = settings
    /\ PlFrame

plugin_initialize(id, settings) == PlCall("initialize", PluginInitialize(pl_state), id, settings)
plugin_start == PlCall("start", PluginStart(pl_state), pl_id, pl_settings)
plugin_stop == PlCall("stop", PluginStop(pl_state), pl_id, pl_settings)
plugin_update(settings) == PlCall("update", pl_state, pl_id, settings)
plugin_dispose == PlCall("dispose", PluginDispose(pl_state), pl_id, pl_settings)
plugin_handle_error == PlCall("handle_error", PluginHandleError(pl_state), pl_id, pl_settings)

\* PluginBase.__init__
PlInit ==
    /\ pl_state = PluginNew
    /\ pl_id = "None"
    /\ pl_settings = "empty"
    /\ pl_call = "__init__"
    /\ pl_calls = 0

PlNext ==
    \/ \E id \in PlInstanceIds, st \in PlSettings : plugin_initialize(id, st)
    \/ plugin_start
    \/ plugin_stop
    \/ \E st \in PlSettings : plugin_update(st)
    \/ plugin_dispose
    \/ plugin_handle_error

(***************************************************************************)
(* Grid layout (GridController, Tile)                                      *)
(***************************************************************************)

GRID_ROWS == 8
GRID_COLS == 8

\* Bound: the number of tiles on a page.
MaxTiles == 2

\* The pages the controller knows (GridController.pages) and the page ids,
\* tile ids, cells and spans that calls are made with.
Pages == {"p1"}
SamplePageIds == {"p1", "p2"}
SampleTileIds == {"None", "t1"}
SampleCells == {0, 1, 7}
SampleSpans == {1, 2}

\* Tile.__post_init__: the tile lies within the grid.
ValidTile(t) ==
    /\ t.row >= 0 /\ t.row < 8
    /\ t.col >= 0 /\ t.col < 8
    /\ t.width >= 1 /\ t.width <= 8
    /\ t.height >= 1 /\ t.height <= 8
    /\ t.col + t.width <= 8
    /\ t.row + t.height <= 8

Tile(id, page_id, row, col, width, height) ==
    [id |-> id, page_id |-> page_id, row |-> row, col |-> col,
     width |-> width, height |-> height]

\* The tiles a caller can construct.
SampleTiles ==
    { t \in [id : SampleTileIds, page_id : SamplePageIds, row : SampleCells,
             col : SampleCells, width : SampleSpans, height : SampleSpans] :
        ValidTile(t) }

\* Tile.overlaps_with
overlaps_with(t, other) ==
    ~ ( \/ t.row + t.height <= other.row
        \/ t.row >= other.row + other.height
        \/ t.col + t.width <= other.col
        \/ t.col >= other.col + other.width )

\* GridController.tiles: the tiles of the current page.
tiles == IF current_page # "None" THEN tiles_by_page[current_page] ELSE <<>>

\* check_collision over the tiles ts: the tiles whose id is exclude_id are
\* skipped.
check_collision(ts, t, exclude_id) ==
    \E k \in 1..Len(ts) : ts[k].id # exclude_id /\ overlaps_with(t, ts[k])

\* The index of the first tile with the id, 0 if there is none.
FindTile(ts, tile_id) ==
    IF \E k \in 1..Len(ts) : ts[k].id = tile_id
    THEN CHOOSE k \in 1..Len(ts) :
            ts[k].id = tile_id /\ \A j \in 1..(k - 1) : ts[j].id # tile_id
    ELSE 0

GridRet(op, result) == [op |-> op, result |-> result]

GridSame(op) ==
    /\ g_last' = GridRet(op, FALSE)
    /\ UNCHANGED <<current_page, tiles_by_page>>

switch_to_page(page_id) ==
    /\ IF page_id \in Pages
       THEN /\ current_page' = page_id
            /\ g_last' = GridRet("switch_to_page", TRUE)
            /\ UNCHANGED tiles_by_page
       ELSE GridSame("switch_to_page")
    /\ GridFrame

add_tile(t) ==
    /\ Len(tiles) < MaxTiles
    /\ IF current_page = "None" THEN GridSame("add_tile")
       ELSE IF t.page_id # current_page THEN GridSame("add_tile")
       ELSE IF check_collision(tiles, t, "None") THEN GridSame("add_tile")
       ELSE /\ tiles_by_page' = [tiles_by_page EXCEPT ![current_page] = Append(@, t)]
            /\ g_last' = GridRet("add_tile", TRUE)
            /\ UNCHANGED current_page
    /\ GridFrame

remove_tile(tile_id) ==
    /\ IF current_page = "None" \/ tile_id = "None" \/ FindTile(tiles, tile_id) = 0
       THEN GridSame("remove_tile")
       ELSE LET k == FindTile(tiles, tile_id) IN
            /\ tiles_by_page' = [tiles_by_page EXCEPT ![current_page] =
                    SubSeq(@, 1, k - 1) \o SubSeq(@, k + 1, Len(@))]
            /\ g_last' = GridRet("remove_tile", TRUE)
            /\ UNCHANGED current_page
    /\ GridFrame

\* move_tile and resize_tile: the tile is changed in place, checked against
\* the list it is in, and reverted on a collision.
TryChange(op, k, changed, tile_id) ==
    LET ts == [tiles EXCEPT ![k] = changed] IN
    IF check_collision(ts, changed, tile_id) THEN GridSame(op)
    ELSE /\ tiles_by_page' = [tiles_by_page EXCEPT ![current_page] = ts]
         /\ g_last' = GridRet(op, TRUE)
         /\ UNCHANGED current_page

move_tile(tile_id, new_row, new_col) ==
    /\ IF current_page = "None" \/ tile_id = "None" \/ FindTile(tiles, tile_id) = 0
       THEN GridSame("move_tile")
       ELSE LET k == FindTile(tiles, tile_id)
                t == tiles[k]
            IN IF \/ new_row < 0 \/ new_col < 0
                  \/ new_row + t.height > GRID_ROWS
                  \/ new_col + t.width > GRID_COLS
               THEN GridSame("move_tile")
               ELSE TryChange("move_tile", k, [t EXCEPT !.row = new_row, !.col = new_col],
                              tile_id)
    /\ GridFrame

resize_tile(tile_id, new_width, new_height) ==
    /\ IF current_page = "None" \/ tile_id = "None" \/ FindTile(tiles, tile_id) = 0
       THEN GridSame("resize_tile")
       ELSE LET k == FindTile(tiles, tile_id)
                t == tiles[k]
            IN IF \/ new_width < 1 \/ new_height < 1
                  \/ new_width > GRID_COLS \/ new_height > GRID_ROWS
                  \/ t.row + new_height > GRID_ROWS
                  \/ t.col + new_width > GRID_COLS
               THEN GridSame("resize_tile")
               ELSE TryChange("resize_tile", k,
                              [t EXCEPT !.width = new_width, !.height = new_height], tile_id)
    /\ GridFrame

\* GridController.__init__, with the pages loaded.
GridInit ==
    /\ current_page = "None"
    /\ tiles_by_page = [p \in Pages |-> <<>>]
    /\ g_last = GridRet("__init__", TRUE)

GridNext ==
    \/ \E page_id \in SamplePageIds : switch_to_page(page_id)
    \/ \E t \in SampleTiles : add_tile(t)
    \/ \E id \in SampleTileIds : remove_tile(id)
    \/ \E id \in SampleTileIds, r \in SampleCells \cup {-1}, c \in SampleCells :
          move_tile(id, r, c)
    \/ \E id \in SampleTileIds, w \in SampleSpans \cup {0}, h \in SampleSpans \cup {8} :
          resize_tile(id, w, h)

(***************************************************************************)
(* Worker message loop (PluginWorker.run)                                  *)
(***************************************************************************)

\* Bound: the number of requests one worker receives.
MaxRequests == 3

\* What arrives on the worker's socket: the text of an envelope of one of the
\* message types, or a text from_json cannot turn into an envelope (no JSON, a
\* missing field, a type that is no MessageType).
RequestKinds == MessageTypes \cup {"undecodable"}

NoIteration == [req |-> "none", reply |-> "none", raised |-> FALSE]

\* Whether the handler of the message reads keys of the payload: _handle_init
\* before it calls the factory, _handle_update, _handle_render and
\* _handle_settings_changed once they found an instance.
ReadsPayload(w, kind) ==
    \/ kind = "INIT"
    \/ kind \in {"UPDATE", "RENDER", "SETTINGS_CHANGED"} /\ w.plugin # "None"

\* The handler run on a request whose payload has (keys) or lacks the keys the
\* handler reads: a missing key is a KeyError before the plugin is touched.
Handled(w, kind, keys, b) ==
    IF ReadsPayload(w, kind) /\ ~keys THEN Reply(w, "raises") ELSE Dispatch(w, kind, b)

\* transport.send of the reply: to_json fails on a RENDER reply whose
\* render_data (the plugin's) is not JSON, and send returns False.
Sent(kind, reply, json) == ~(kind = "RENDER" /\ reply = "ok" /\ ~json)

\* _cleanup without the call of dispose.
CleanupDisposesNever(w) == FALSE
\* _cleanup: dispose is called on the instance still held.
CleanupDisposes(w) == w.plugin # "None"

\* How the dispose that _cleanup calls ends: it returns, raises before the
\* base class dispose has run, or raises after it.
CleanupOutcomes == {"ok", "raises", "raises_late"}

\* _cleanup: dispose of the instance still held (an exception of dispose is
\* logged; the reference is kept), then close the transport.
Cleanup(w, c) ==
    IF ~CleanupDisposes(w) \/ c = "raises" THEN w
    ELSE [w EXCEPT !.state = PluginDispose(w.state)]

NotExited == [dispose |-> "none", close |-> FALSE]

\* _handle_init reaches the factory and the factory returns an instance.
Constructs(kind, keys, b) == kind = "INIT" /\ keys /\ b.factory = "instance"

\* _handle_dispose calls the dispose of the instance held and the base class
\* dispose runs (the plugin's own code may still raise after it).
HandlerDisposes(w, kind, b) ==
    kind = "DISPOSE" /\ w.plugin # "None" /\ b.call \in {"ok", "raises_late"}

\* One more dispose run on the instance constructed last (the one held).
DisposedHeld(ds) == [ds EXCEPT ![Len(ds)] = @ + 1]

\* The disposes run per instance after the handler of the message.
AfterHandler(ds, w, kind, keys, b) ==
    IF Constructs(kind, keys, b) THEN Append(ds, 0)
    ELSE IF HandlerDisposes(w, kind, b) THEN DisposedHeld(ds)
    ELSE ds

\* The disposes run per instance after _cleanup.
AfterCleanup(ds, w, c) ==
    IF CleanupDisposes(w) /\ c # "raises" THEN DisposedHeld(ds) ELSE ds

\* What _cleanup called: dispose (and how it ended) and transport.close, which
\* is called when self.transport was assigned (opened).
CleanupCalls(w, c, opened) ==
    [dispose |-> IF ~CleanupDisposes(w) THEN "not_called"
                 ELSE IF c = "ok" THEN "returned" ELSE "raised",
     close |-> opened]

\* The start of run(): the transport is created and bound.  When the bind
\* fails the constructor raises, self.transport stays None, and run() goes
\* through its except and _cleanup without entering the loop.
Bind(ok, c) ==
    /\ w_pc = "start"
    /\ w_pc' = IF ok THEN "loop" ELSE "exited"
    /\ rep' = IF ok THEN "recv" ELSE "unbound"
    /\ worker' = IF ok THEN worker ELSE Cleanup(worker, c)
    /\ w_exit' = IF ok THEN w_exit ELSE CleanupCalls(worker, c, FALSE)
    /\ UNCHANGED <<n_req, n_rep, w_last, w_disposals>>
    /\ LoopFrame

\* One iteration of the loop of run() in which receive returns None: the
\* receive timed out, or the REP socket, owing a reply, refused the recv.
ReceiveNothing ==
    /\ w_pc = "loop"
    /\ w_last # NoIteration
    /\ w_last' = NoIteration
    /\ UNCHANGED <<worker, rep, w_pc, w_exit, n_req, n_rep, w_disposals>>
    /\ LoopFrame

\* One iteration of the loop of run() in which a request arrives: receive,
\* _handle_message, send; after the loop, _cleanup.
RunIteration(kind, keys, b, json, c) ==
    /\ w_pc = "loop"
    /\ rep = "recv"
    /\ n_req < MaxRequests
    /\ n_req' = n_req + 1
    /\ IF kind = "undecodable"
       THEN /\ rep' = "must_send"
            /\ w_last' = [req |-> kind, reply |-> "none", raised |-> FALSE]
            /\ UNCHANGED <<worker, w_pc, w_exit, n_rep, w_disposals>>
       ELSE LET d == Handled(worker, kind, keys, b)
                h == Caught(d)
                escaped == h.reply = "raises"
                sent == ~escaped /\ Sent(kind, h.reply, json)
                ends == escaped \/ ~h.w.running
            IN /\ w_last' = [req |-> kind,
                             reply |-> IF sent THEN h.reply ELSE "none",
                             raised |-> d.reply = "raises"]
               /\ n_rep' = IF sent THEN n_rep + 1 ELSE n_rep
               /\ worker' = IF ends THEN Cleanup(h.w, c) ELSE h.w
               /\ w_pc' = IF ends THEN "exited" ELSE "loop"
               /\ w_exit' = IF ends THEN CleanupCalls(h.w, c, TRUE) ELSE w_exit
               /\ rep' = IF ends THEN "closed" ELSE IF sent THEN "recv" ELSE "must_send"
               /\ w_disposals' =
                     LET handled == AfterHandler(w_disposals, worker, kind, keys, b)
                     IN IF ends THEN AfterCleanup(handled, h.w, c) ELSE handled
    /\ LoopFrame

WkInit ==
    /\ worker = NewWorker
    /\ rep = "none"
    /\ w_pc = "start"
    /\ w_exit = NotExited
    /\ n_req = 0
    /\ n_rep = 0
    /\ w_last = NoIteration
    /\ w_disposals = <<>>

WkNext ==
    \/ \E kind \in RequestKinds, keys \in BOOLEAN, b \in HostedBehaviours,
          json \in BOOLEAN, c \in CleanupOutcomes : RunIteration(kind, keys, b, json, c)
    \/ ReceiveNothing
    \/ \E ok \in BOOLEAN, c \in CleanupOutcomes : Bind(ok, c)

(***************************************************************************)
(* Supervisor                                                              *)
(***************************************************************************)

\* Bound: the number of endpoints the supervisor allocates.
MaxSpawns == 2

base_port == 5555

SupInstanceIds == {"clock_1", "links_1"}
PluginIds == {"clock"}
Ports == base_port .. (base_port + MaxSpawns - 1)

\* PluginProcess(instance_id, plugin_id, process, transport, endpoint, ...):
\* the process and the transport are the ones of the endpoint's port.
PluginProcess(i, plugin_id, port) ==
    [instance_id |-> i, plugin_id |-> plugin_id, port |-> port]

Tracked == DOMAIN processes
PortOf(i) == processes[i].port

\* What is observed of a supervisor call: the operation, its return value
\* ("raised" if it raises) and how many records it removed from the table.
Ret(op, result, removed) == [op |-> op, result |-> result, removed |-> removed]

\* receive with the exception of from_json passed on to the caller.
ReceivedOrRaised(timing, reply) == IF timing = "undecodable" THEN "raised" ELSE reply

\* ZMQTransport.receive: the message of the reply text, None when the text
\* does not decode.
Received(timing, reply) == IF timing = "undecodable" THEN "None" ELSE reply

\* A send that goes out whenever the socket is open, also while a reply is
\* awaited.
CanSendUnlessClosed(port) == sock[port] \in {"ready", "awaiting"}

\* ZMQTransport.send: socket.send_string succeeds on a REQ socket only when no
\* reply is awaited on it; otherwise it raises, which send turns into False.
CanSend(port) == sock[port] = "ready"

\* A transport that sends while a reply is awaited and takes whatever reply
\* sits in the socket as the answer: the late reply of the earlier request.
SendAndReceiveStale(port, kind, timing, b) ==
    IF sock[port] = "awaiting" /\ inbox[port] = "none" /\ proc[port] = "running"
    THEN [resp |-> "ok", sock |-> "awaiting", w |-> wk[port],
          inbox |-> kind, proc |-> proc[port]]
    ELSE IF ~CanSend(port)
    THEN [resp |-> "None", sock |-> sock[port], w |-> wk[port],
          inbox |-> inbox[port], proc |-> proc[port]]
    ELSE IF proc[port] = "running" /\ timing # "late"
    THEN LET h == handle_message(wk[port], kind, b) IN
         [resp |-> Received(timing, h.reply), sock |-> "ready", w |-> AfterLoop(h.w), inbox |-> "none",
          proc |-> IF h.w.running THEN "running" ELSE "exited"]
    ELSE [resp |-> "None", sock |-> "awaiting", w |-> wk[port],
          inbox |-> IF proc[port] = "running" THEN kind ELSE "none",
          proc |-> proc[port]]

\* ZMQTransport.send_and_receive on the transport of `port`, for a request of
\* the given kind. The send fails unless the REQ socket is ready to send (it
\* is not while a reply is awaited, nor once closed). timing says whether the
\* worker handles the request and replies within the timeout; "undecodable"
\* is a reply in time whose text from_json rejects: receive catches the
\* exception and returns None.
\*   resp: "ok", "error" or "None"; sock, w, inbox, proc: the new states.
SendAndReceive(port, kind, timing, b) ==
    IF ~CanSend(port)
    THEN [resp |-> "None", sock |-> sock[port], w |-> wk[port],
          inbox |-> inbox[port], proc |-> proc[port]]
    ELSE IF proc[port] = "running" /\ timing # "late"
    THEN LET h == handle_message(wk[port], kind, b) IN
         [resp |-> Received(timing, h.reply), sock |-> "ready", w |-> AfterLoop(h.w), inbox |-> "none",
          proc |-> IF h.w.running THEN "running" ELSE "exited"]
    ELSE [resp |-> "None", sock |-> "awaiting", w |-> wk[port],
          inbox |-> IF proc[port] = "running" THEN kind ELSE "none",
          proc |-> proc[port]]

Timings == {"in_time", "late", "undecodable"}

\* The test spawn_plugin makes on each handshake response, with the ERROR
\* check left out.
FailedOnlyTimeout(resp) == resp = "None"

\* not response or response.type == MessageType.ERROR
Failed(resp) == resp = "None" \/ resp = "error"

\* The worker state a process is left with: a process whose loop has ended
\* runs _cleanup and exits, and an exited process holds no state.
Gone(state, w) == IF state = "running" THEN w ELSE NewWorker

\* ---- spawn_plugin ----

\* What can happen around the handshake of spawn_plugin.
\*   stage: how far the spawn gets before anything raises
\*   init, start: timing of the worker's replies to INIT and START
\*   b_init, b_start: what the plugin code does on INIT and START
\*   sigterm: whether process.terminate() on the failure paths raises
SpawnOutcome(stage, init, b_init, start, b_start, sigterm) ==
    [stage |-> stage, init |-> init, b_init |-> b_init,
     start |-> start, b_start |-> b_start, sigterm |-> sigterm]

\* The plugin that behaves: the factory returns an instance, its calls return.
Behaves == [factory |-> "instance", call |-> "ok"]

SpawnOutcomes ==
    \* the spawn ends before the handshake
    { SpawnOutcome(stage, "in_time", Behaves, "in_time", Behaves, "ok") :
         stage \in {"popen_raises", "early_exit", "transport_raises"} }
    \* both replies come in time and are not ERROR
    \cup { SpawnOutcome("handshake", "in_time", Behaves, "in_time", Behaves, "ok") }
    \* INIT is answered by ERROR or not in time; process.terminate() may raise
    \cup { SpawnOutcome("handshake", "in_time", b, "in_time", Behaves, sigterm) :
             b \in BehavioursFor("INIT") \ {Behaves}, sigterm \in {"ok", "raises"} }
    \cup { SpawnOutcome("handshake", "late", Behaves, "in_time", Behaves, sigterm) :
             sigterm \in {"ok", "raises"} }
    \* START is answered by ERROR or not in time
    \cup { SpawnOutcome("handshake", "in_time", Behaves, "in_time", b, sigterm) :
             b \in BehavioursFor("START") \ {Behaves}, sigterm \in {"ok", "raises"} }
    \cup { SpawnOutcome("handshake", "in_time", Behaves, "late", Behaves, sigterm) :
             sigterm \in {"ok", "raises"} }

\* The duplicate check left out.
AlreadyRunningNever(i) == FALSE

\* if instance_id in self.processes
AlreadyRunning(i) == i \in Tracked

\* The port counter left as it is.
NextPortSame(port) == port

\* self._next_port += 1
NextPort(port) == port + 1

\* The body of spawn_plugin, on the supervisor's own state.
SpawnPlugin(i, plugin_id, o) ==
    IF AlreadyRunning(i)
    THEN \* already running
         /\ last' = Ret("spawn", "False", 0)
         /\ UNCHANGED <<processes, next_port, proc, sock, wk, inbox>>
    ELSE
    LET port == next_port IN
    /\ port \in Ports
    /\ next_port' = NextPort(next_port)
    /\ CASE o.stage = "popen_raises" ->
              /\ last' = Ret("spawn", "False", 0)
              /\ UNCHANGED <<processes, proc, sock, wk, inbox>>
         [] o.stage = "early_exit" ->
              \* process.poll() is not None after the grace period
              /\ proc' = [proc EXCEPT ![port] = "exited"]
              /\ last' = Ret("spawn", "False", 0)
              /\ UNCHANGED <<processes, sock, wk, inbox>>
         [] o.stage = "transport_raises" ->
              \* ZMQTransport(...) raises: caught by `except Exception`
              /\ proc' = [proc EXCEPT ![port] = "running"]
              /\ wk' = [wk EXCEPT ![port] = NewWorker]
              /\ last' = Ret("spawn", "False", 0)
              /\ UNCHANGED <<processes, sock, inbox>>
         [] o.stage = "handshake" ->
              LET \* the process runs, the transport is connected
                  w0 == NewWorker
                  r1 == IF o.init = "in_time"
                        THEN handle_message(w0, "INIT", o.b_init)
                        ELSE Reply(w0, "None")
                  r2 == IF o.start = "in_time"
                        THEN handle_message(r1.w, "START", o.b_start)
                        ELSE Reply(r1.w, "None")
                  \* the failure paths: transport.close(); process.terminate()
                  killed == IF o.sigterm = "ok" THEN "exited" ELSE "running"
              IN
              IF Failed(r1.reply)
              THEN /\ sock' = [sock EXCEPT ![port] = "closed"]
                   /\ proc' = [proc EXCEPT ![port] = killed]
                   /\ wk' = [wk EXCEPT ![port] = Gone(killed, r1.w)]
                   /\ inbox' = [inbox EXCEPT ![port] =
                                   IF r1.reply = "None" /\ killed = "running"
                                   THEN "INIT" ELSE "none"]
                   /\ last' = Ret("spawn", "False", 0)
                   /\ UNCHANGED processes
              ELSE IF Failed(r2.reply)
              THEN /\ sock' = [sock EXCEPT ![port] = "closed"]
                   /\ proc' = [proc EXCEPT ![port] = killed]
                   /\ wk' = [wk EXCEPT ![port] = Gone(killed, r2.w)]
                   /\ inbox' = [inbox EXCEPT ![port] =
                                   IF r2.reply = "None" /\ killed = "running"
                                   THEN "START" ELSE "none"]
                   /\ last' = Ret("spawn", "False", 0)
                   /\ UNCHANGED processes
              ELSE /\ sock' = [sock EXCEPT ![port] = "ready"]
                   /\ proc' = [proc EXCEPT ![port] = "running"]
                   /\ wk' = [wk EXCEPT ![port] = r2.w]
                   /\ processes' = [j \in Tracked \cup {i} |->
                                       IF j = i THEN PluginProcess(i, plugin_id, port)
                                       ELSE processes[j]]
                   /\ last' = Ret("spawn", "True", 0)
                   /\ UNCHANGED inbox

\* spawn_plugin called on its own.
spawn_plugin(i, plugin_id, o) ==
    /\ SpawnPlugin(i, plugin_id, o)
    /\ SupFrame

\* ---- send_update, request_render, update_settings ----

\* response is not None and response.type != MessageType.ERROR
BoolResult(resp) == IF resp = "ok" THEN "True" ELSE "False"
\* response.payload if response and response.type != MessageType.ERROR
PayloadResult(resp) == IF resp = "ok" THEN "payload" ELSE "None"

\* One request to a tracked instance: request_render returns the payload of
\* the response, the other two a boolean.
Request(op, kind, i, timing, b) ==
    LET port == PortOf(i)
        x == SendAndReceive(port, kind, timing, b)
    IN
    /\ sock' = [sock EXCEPT ![port] = x.sock]
    /\ wk' = [wk EXCEPT ![port] = x.w]
    /\ inbox' = [inbox EXCEPT ![port] = x.inbox]
    /\ proc' = [proc EXCEPT ![port] = x.proc]
    /\ last' = Ret(op, IF op = "request_render" THEN PayloadResult(x.resp)
                        ELSE BoolResult(x.resp), 0)
    /\ UNCHANGED <<processes, next_port>>

\* `processes[instance_id]` without the membership test: a KeyError.
NotTrackedKeyError(op, result) ==
    /\ last' = Ret(op, "raised", 0)
    /\ UNCHANGED <<processes, next_port, proc, sock, wk, inbox>>

\* if instance_id not in self.processes: return <result>
NotTracked(op, result) ==
    /\ last' = Ret(op, result, 0)
    /\ UNCHANGED <<processes, next_port, proc, sock, wk, inbox>>

\* The return value of send_update.
SendUpdateReturn(i, timing, b) ==
    IF i \notin Tracked THEN "False"
    ELSE BoolResult(SendAndReceive(PortOf(i), "UPDATE", timing, b).resp)

SendUpdate(i, timing, b) ==
    IF i \notin Tracked
    THEN NotTracked("send_update", "False")
    ELSE Request("send_update", "UPDATE", i, timing, b)

send_update(i, timing, b) ==
    /\ SendUpdate(i, timing, b)
    /\ SupFrame

RequestRender(i, timing, b) ==
    IF i \notin Tracked
    THEN NotTracked("request_render", "None")
    ELSE Request("request_render", "RENDER", i, timing, b)

request_render(i, timing, b) ==
    /\ RequestRender(i, timing, b)
    /\ SupFrame

UpdateSettings(i, timing, b) ==
    IF i \notin Tracked
    THEN NotTracked("update_settings", "False")
    ELSE Request("update_settings", "SETTINGS_CHANGED", i, timing, b)

update_settings(i, timing, b) ==
    /\ UpdateSettings(i, timing, b)
    /\ SupFrame

\* ---- terminate_plugin ----

\* How the termination of a running worker goes:
\*   exits          the process is gone when wait(2.0) returns
\*   sigterm        wait(2.0) times out; terminate(); the process exits within 1 s
\*   sigkill        ... wait(1.0) times out as well; kill()
\*   sigterm_raises process.terminate() raises
\*   sigkill_raises process.kill() raises
TerminateOutcomes == {"exits", "sigterm", "sigkill", "sigterm_raises", "sigkill_raises"}

\* proc.transport.send(shutdown_msg): the message leaves iff the REQ socket is
\* ready to send.
ShutdownSent(i) == CanSend(PortOf(i))

\* The outcomes that can happen for a tracked instance: a process that has
\* exited is gone at wait(2.0); a running one exits in time only if SHUTDOWN
\* reached it.
CanHappen(i, o) ==
    IF proc[PortOf(i)] # "running" THEN o = "exits"
    ELSE o = "exits" => ShutdownSent(i)

Raises(o) == o \in {"sigterm_raises", "sigkill_raises"}

\* The states of the instance's process, transport, worker and inbox after
\* terminate_plugin(i) went as o.
TermProc(i, o) == IF Raises(o) THEN proc[PortOf(i)] ELSE "exited"

TermSock(i, o) ==
    IF Raises(o)
    THEN \* transport.close() is skipped: the except clause is entered
         IF ShutdownSent(i) THEN "awaiting" ELSE sock[PortOf(i)]
    ELSE "closed"

TermWk(i, o) == Gone(TermProc(i, o), wk[PortOf(i)])

TermInbox(i, o) ==
    IF Raises(o)
    THEN IF ShutdownSent(i) THEN "SHUTDOWN" ELSE inbox[PortOf(i)]
    ELSE "none"

\* A termination step's exception passed on to the caller.
ReturnedUnlessRaised(ids, f) ==
    IF \E i \in ids : Raises(f[i]) THEN "raised" ELSE "None"

\* except Exception: the exception of a termination step is logged, and
\* terminate_plugin returns None.
Returned(ids, f) == "None"

\* The records deleted when the `del` is made on the normal path only.
RemovedUnlessRaised(ids, f) == { i \in ids : ~Raises(f[i]) }

\* finally: del self.processes[instance_id]
Removed(ids, f) == ids

\* terminate_plugin for each instance of `ids` (all tracked), instance i going
\* as f[i]; the `finally` clause removes the records.
TerminateAll(ids, f) ==
    LET of(port) == CHOOSE i \in ids : PortOf(i) = port
        hit(port) == \E i \in ids : PortOf(i) = port
    IN
    /\ proc' = [p \in Ports |-> IF hit(p) THEN TermProc(of(p), f[of(p)]) ELSE proc[p]]
    /\ sock' = [p \in Ports |-> IF hit(p) THEN TermSock(of(p), f[of(p)]) ELSE sock[p]]
    /\ wk' = [p \in Ports |-> IF hit(p) THEN TermWk(of(p), f[of(p)]) ELSE wk[p]]
    /\ inbox' = [p \in Ports |-> IF hit(p) THEN TermInbox(of(p), f[of(p)]) ELSE inbox[p]]
    /\ processes' = [j \in Tracked \ Removed(ids, f) |-> processes[j]]
    /\ UNCHANGED next_port

TerminatePlugin(i, o) ==
    IF i \notin Tracked
    THEN NotTracked("terminate", "None")
    ELSE /\ CanHappen(i, o)
         /\ TerminateAll({i}, [j \in {i} |-> o])
         /\ last' = Ret("terminate", Returned({i}, [j \in {i} |-> o]),
                        Cardinality(Tracked) - Cardinality(Tracked'))

terminate_plugin(i, o) ==
    /\ TerminatePlugin(i, o)
    /\ SupFrame

\* ---- check_health, shutdown_all ----

\* check_health with the poll() test left out.
DeadOrAlive == Tracked

\* The records whose process has exited: proc.process.poll() is not None.
Dead == { i \in Tracked : proc[PortOf(i)] # "running" }

check_health ==
    /\ \E f \in [Dead -> TerminateOutcomes] :
          /\ \A i \in Dead : CanHappen(i, f[i])
          /\ TerminateAll(Dead, f)
          /\ last' = Ret("check_health", Returned(Dead, f),
                         Cardinality(Tracked) - Cardinality(Tracked'))
    /\ SupFrame

\* shutdown_all going over the records of dead processes only.
ShutdownTargetsDead == Dead

\* for instance_id in list(self.processes.keys())
ShutdownTargets == Tracked

\* shutdown_all, and __del__, which calls it.
shutdown_all ==
    /\ \E f \in [ShutdownTargets -> TerminateOutcomes] :
          /\ \A i \in ShutdownTargets : CanHappen(i, f[i])
          /\ TerminateAll(ShutdownTargets, f)
          /\ last' = Ret("shutdown_all", Returned(ShutdownTargets, f),
                         Cardinality(Tracked) - Cardinality(Tracked'))
    /\ SupFrame

\* ---- the workers, running on their own ----

\* The worker loop handles a request the host has stopped waiting for; the
\* reply goes to a socket nobody receives from.
WorkerHandlesLate(port, b) ==
    /\ proc[port] = "running"
    /\ inbox[port] # "none"
    /\ b \in BehavioursFor(inbox[port])
    /\ LET h == handle_message(wk[port], inbox[port], b) IN
       /\ wk' = [wk EXCEPT ![port] = AfterLoop(h.w)]
       /\ proc' = [proc EXCEPT ![port] = IF h.w.running THEN "running" ELSE "exited"]
    /\ inbox' = [inbox EXCEPT ![port] = "none"]
    /\ UNCHANGED <<processes, next_port, sock, last>>
    /\ SupFrame

\* A worker process crashes or is killed from outside.
WorkerDies(port) ==
    /\ proc[port] = "running"
    /\ proc' = [proc EXCEPT ![port] = "exited"]
    /\ wk' = [wk EXCEPT ![port] = NewWorker]
    /\ inbox' = [inbox EXCEPT ![port] = "none"]
    /\ UNCHANGED <<processes, next_port, sock, last>>
    /\ SupFrame

SupInit ==
    /\ processes = << >>
    /\ next_port = base_port
    /\ proc = [p \in Ports |-> "none"]
    /\ sock = [p \in Ports |-> "none"]
    /\ wk = [p \in Ports |-> NewWorker]
    /\ inbox = [p \in Ports |-> "none"]
    /\ last = Ret("init", "None", 0)

SupNext ==
    \/ \E i \in SupInstanceIds, pid \in PluginIds, o \in SpawnOutcomes :
          spawn_plugin(i, pid, o)
    \/ \E i \in SupInstanceIds, t \in Timings, b \in BehavioursFor("UPDATE") :
          send_update(i, t, b)
    \/ \E i \in SupInstanceIds, t \in Timings, b \in BehavioursFor("RENDER") :
          request_render(i, t, b)
    \/ \E i \in SupInstanceIds, t \in Timings, b \in BehavioursFor("SETTINGS_CHANGED") :
          update_settings(i, t, b)
    \/ \E i \in SupInstanceIds, o \in TerminateOutcomes : terminate_plugin(i, o)
    \/ check_health
    \/ shutdown_all
    \/ \E p \in Ports, b \in Behaviours : WorkerHandlesLate(p, b)
    \/ \E p \in Ports : WorkerDies(p)

(***************************************************************************)
(* Plugin proxy (PluginProxy)                                              *)
(***************************************************************************)

\* The instance and the plugin the proxy was constructed for, the settings
\* dictionaries it is given, and the render data the hosted plugin produces.
ProxyInstance == "clock_1"
ProxyPlugin == "clock"
SettingsValues == {"s0", "s1"}
RenderData == {"html_a", "html_b"}

\* What is observed of a proxy call: the operation, what it returned
\* ("raised" if it raises) and the supervisor calls it made.
PxRet(op, result, calls) == [op |-> op, result |-> result, calls |-> calls]

\* The proxy marked initialized whatever spawn_plugin returned.
InitializedAlways(success) == TRUE
\* if not success: raise RuntimeError(...); self._initialized = True
InitializedAfter(success) == success

\* PluginProxy.init
proxy_init(o) ==
    /\ IF px_initialized
       THEN /\ px_last' = PxRet("init", "None", <<>>)
            /\ UNCHANGED <<supVars, px_initialized, px_settings, px_disposed>>
       ELSE /\ SpawnPlugin(ProxyInstance, ProxyPlugin, o)
            /\ px_initialized' = InitializedAfter(last'.result = "True")
            /\ px_last' = PxRet("init",
                                IF last'.result = "True" THEN "None" ELSE "raised",
                                <<"spawn">>)
            /\ UNCHANGED <<px_settings, px_disposed>>
    /\ PxFrame

\* PluginProxy.start: START was sent during spawn_plugin.
proxy_start ==
    /\ px_last' = PxRet("start", IF px_initialized THEN "None" ELSE "raised", <<>>)
    /\ UNCHANGED <<supVars, px_initialized, px_settings, px_disposed>>
    /\ PxFrame

\* PluginProxy.update
proxy_update(timing, b) ==
    /\ IF ~px_initialized
       THEN /\ px_last' = PxRet("update", "None", <<>>)
            /\ UNCHANGED supVars
       ELSE /\ SendUpdate(ProxyInstance, timing, b)
            /\ px_last' = PxRet("update", "None", <<"send_update">>)
    /\ UNCHANGED <<px_initialized, px_settings, px_disposed>>
    /\ PxFrame

\* The render data looked up in whatever request_render returned.
RenderResultUnchecked(render_data, data) ==
    IF render_data = "None" THEN "raised" ELSE data
\* if render_data is None: return {"html": "<div>Render error</div>"}
\* return render_data.get("render_data", {}): the worker's reply carries the
\* data its plugin produced under the key render_data.
RenderResult(render_data, data) ==
    IF render_data = "None" THEN "render_error" ELSE data

\* PluginProxy.get_render_data; data is what the hosted plugin's
\* get_render_data returns if the worker calls it.
proxy_get_render_data(timing, b, data) ==
    /\ IF ~px_initialized
       THEN /\ px_last' = PxRet("get_render_data", "not_initialized", <<>>)
            /\ UNCHANGED supVars
       ELSE /\ RequestRender(ProxyInstance, timing, b)
            /\ px_last' = PxRet("get_render_data", RenderResult(last'.result, data),
                                <<"request_render">>)
    /\ UNCHANGED <<px_initialized, px_settings, px_disposed>>
    /\ PxFrame

\* PluginProxy.on_settings_changed: self.settings is assigned before the
\* request is made, and a failure is only logged.
proxy_on_settings_changed(new_settings, timing, b) ==
    /\ IF ~px_initialized
       THEN /\ px_last' = PxRet("on_settings_changed", "None", <<>>)
            /\ UNCHANGED <<supVars, px_settings>>
       ELSE /\ px_settings' = new_settings
            /\ UpdateSettings(ProxyInstance, timing, b)
            /\ px_last' = PxRet("on_settings_changed", "None", <<"update_settings">>)
    /\ UNCHANGED <<px_initialized, px_disposed>>
    /\ PxFrame

\* The proxy left initialized by dispose.
InitializedKept(initialized) == initialized
\* self._initialized = False
InitializedAfterDispose(initialized) == FALSE

\* PluginProxy.dispose
proxy_dispose(o) ==
    /\ IF ~px_initialized
       THEN /\ px_last' = PxRet("dispose", "None", <<>>)
            /\ UNCHANGED <<supVars, px_initialized, px_disposed>>
       ELSE /\ TerminatePlugin(ProxyInstance, o)
            /\ px_initialized' = InitializedAfterDispose(px_initialized)
            /\ px_disposed' = TRUE
            /\ px_last' = PxRet("dispose", "None", <<"terminate">>)
    /\ UNCHANGED px_settings
    /\ PxFrame

\* PluginProxy.__init__
PxInit ==
    /\ px_initialized = FALSE
    /\ px_settings = "s0"
    /\ px_disposed = FALSE
    /\ px_last = PxRet("new", "None", <<>>)

\* What can happen around the spawn the proxy asks for. A process.terminate()
\* that raises on a failure path leaves behind a process that has no record;
\* the proxy has no way to reach it, and the case is left to the supervisor's
\* own specification.
ProxySpawnOutcomes == { o \in SpawnOutcomes : o.sigterm = "ok" }

\* The port of the worker the proxy's instance is registered with, if any: the
\* only worker whose doings the proxy can observe.
ProxyPorts == IF ProxyInstance \in Tracked THEN {PortOf(ProxyInstance)} ELSE {}

\* The calls on one proxy, its worker running on its own, and the
\* application's health check and shutdown in between.
PxNext ==
    \/ \E o \in ProxySpawnOutcomes : proxy_init(o)
    \/ proxy_start
    \/ \E t \in Timings, b \in BehavioursFor("UPDATE") : proxy_update(t, b)
    \/ \E t \in Timings, b \in BehavioursFor("RENDER"), data \in RenderData :
          proxy_get_render_data(t, b, data)
    \/ \E s \in SettingsValues, t \in Timings, b \in BehavioursFor("SETTINGS_CHANGED") :
          proxy_on_settings_changed(s, t, b)
    \/ \E o \in TerminateOutcomes : proxy_dispose(o)
    \/ \E p \in ProxyPorts, b \in Behaviours : WorkerHandlesLate(p, b)
    \/ \E p \in ProxyPorts : WorkerDies(p)
    \/ check_health
    \/ shutdown_all

(***************************************************************************)
(* Message envelope and its JSON wire format (IPCMessage)                  *)
(***************************************************************************)

\* Bound: the nesting depth of the payload values.
MaxDepth == 1

\* JSON values are tagged: a string is the sequence of its characters. The
\* character "U+00E9" stands for a non-ASCII letter.
Str(chars) == [t |-> "str", v |-> chars]
Num(n) == [t |-> "int", v |-> n]
Bool(b) == [t |-> "bool", v |-> b]
Null == [t |-> "null", v |-> 0]
List(items) == [t |-> "list", v |-> items]
\* a dict with string keys, as the sequence of its <<key, value>> items
Map(items) == [t |-> "map", v |-> items]

\* MessageType: the value of each member.
MessageTypeValue(type) ==
    CASE type = "INIT" -> <<"i","n","i","t">>
      [] type = "START" -> <<"s","t","a","r","t">>
      [] type = "UPDATE" -> <<"u","p","d","a","t","e">>
      [] type = "DISPOSE" -> <<"d","i","s","p","o","s","e">>
      [] type = "RENDER" -> <<"r","e","n","d","e","r">>
      [] type = "SETTINGS_CHANGED" ->
            <<"s","e","t","t","i","n","g","s","_","c","h","a","n","g","e","d">>
      [] type = "ERROR" -> <<"e","r","r","o","r">>
      [] type = "HEARTBEAT" -> <<"h","e","a","r","t","b","e","a","t">>
      [] type = "SHUTDOWN" -> <<"s","h","u","t","d","o","w","n">>

KeyType == <<"t","y","p","e">>
KeyInstanceId == <<"i","n","s","t","a","n","c","e","_","i","d">>
KeyPayload == <<"p","a","y","l","o","a","d">>

\* IPCMessage(type, instance_id, payload)
IPCMessage(type, instance_id, payload) ==
    [type |-> type, instance_id |-> instance_id, payload |-> payload]

\* ---- characters ----

\* A character is a string. A printable ASCII character is itself, but for
\* the grave accent, which a string of the model cannot hold; tab, line feed,
\* form feed and carriage return are "\t", "\n", "\f" and "\r"; every other
\* code point is named "U+" and its hexadecimal digits (upper case, at least
\* four): "U+0008", "U+0060", "U+007F", "U+00E9", "U+D83D", "U+1F600".
PrintableLow == " !\"#$%&'()*+,-./0123456789:;<=>?@ABCDEFGHIJKLMNOPQRSTUVWXYZ[\\]^_"
PrintableHigh == "abcdefghijklmnopqrstuvwxyz{|}~"
LowerHex == "0123456789abcdef"
UpperHex == "0123456789ABCDEF"

\* The k-th character of a string of the model's text.
At(str, k) == SubSeq(str, k, k)

IsHex(c) == \E k \in 1..16 : At(LowerHex, k) = c \/ At(UpperHex, k) = c
HexVal(c) == (CHOOSE k \in 1..16 : At(LowerHex, k) = c \/ At(UpperHex, k) = c) - 1

RECURSIVE HexNumber(_, _)
HexNumber(str, acc) ==
    IF str = "" THEN acc ELSE HexNumber(Tail(str), acc * 16 + HexVal(Head(str)))

\* ord(c)
Code(c) ==
    CASE c = "\t" -> 9
      [] c = "\n" -> 10
      [] c = "\f" -> 12
      [] c = "\r" -> 13
      [] Len(c) = 1 ->
            IF \E k \in 1..Len(PrintableLow) : At(PrintableLow, k) = c
            THEN 31 + (CHOOSE k \in 1..Len(PrintableLow) : At(PrintableLow, k) = c)
            ELSE 96 + (CHOOSE k \in 1..Len(PrintableHigh) : At(PrintableHigh, k) = c)
      [] OTHER -> HexNumber(SubSeq(c, 3, Len(c)), 0)

RECURSIVE UpperHexOf(_)
UpperHexOf(n) ==
    IF n < 16 THEN At(UpperHex, n + 1)
    ELSE UpperHexOf(n \div 16) \o At(UpperHex, (n % 16) + 1)

RECURSIVE Pad4(_)
Pad4(str) == IF Len(str) < 4 THEN Pad4("0" \o str) ELSE str

\* chr(n)
CharOf(n) ==
    CASE n = 9 -> "\t"
      [] n = 10 -> "\n"
      [] n = 12 -> "\f"
      [] n = 13 -> "\r"
      [] n \in 32..95 -> At(PrintableLow, n - 31)
      [] n \in 97..126 -> At(PrintableHigh, n - 96)
      [] OTHER -> "U+" \o Pad4(UpperHexOf(n))

\* A control character: a code below 0x20.
IsControl(c) ==
    \/ c \in {"\t", "\n", "\f", "\r"}
    \/ Len(c) > 1 /\ c # "EOF" /\ Code(c) < 32

\* '\\u{0:04x}'.format(n)
UEscape(n) ==
    <<"\\", "u", At(LowerHex, ((n \div 4096) % 16) + 1), At(LowerHex, ((n \div 256) % 16) + 1),
      At(LowerHex, ((n \div 16) % 16) + 1), At(LowerHex, (n % 16) + 1)>>

IsHighSurrogate(n) == n \in 55296..56319
IsLowSurrogate(n) == n \in 56320..57343

\* ---- json.dumps ----

Digits == <<"0", "1", "2", "3", "4", "5", "6", "7", "8", "9">>

RECURSIVE NatToDigits(_)
NatToDigits(n) ==
    IF n < 10 THEN <<Digits[n + 1]>>
    ELSE NatToDigits(n \div 10) \o <<Digits[(n % 10) + 1]>>

Abs(n) == IF n < 0 THEN -n ELSE n
Sign(n) == IF n < 0 THEN <<"-">> ELSE << >>

EncodeInt(n) == Sign(n) \o NatToDigits(Abs(n))

Zeros(n) == [k \in 1..n |-> "0"]

\* ---- floats ----

\* The digits ds without the zeros that lead them.
StripLeading(ds) ==
    IF \A i \in DOMAIN ds : ds[i] = "0" THEN << >>
    ELSE SubSeq(ds, CHOOSE i \in DOMAIN ds : ds[i] # "0" /\ \A j \in 1..(i - 1) : ds[j] = "0",
                Len(ds))

\* The digits ds times 10^e without the zeros that trail them: the digits
\* and the exponent.
LastDigit(ds) == CHOOSE i \in DOMAIN ds : ds[i] # "0" /\ \A j \in (i + 1)..Len(ds) : ds[j] = "0"
StripTrailing(ds, e) ==
    IF \A i \in DOMAIN ds : ds[i] = "0" THEN [ds |-> << >>, e |-> 0]
    ELSE [ds |-> SubSeq(ds, 1, LastDigit(ds)), e |-> e + Len(ds) - LastDigit(ds)]

\* A float: "finite" with its sign and its value, the decimal digits ds (no
\* zero at either end; none for zero) times 10^e, or "inf" with its sign, or
\* "nan".  A double is named by the shortest digits that denote it, as
\* float.__repr__ prints it.
FloatValue(kind, neg, ds, e) ==
    [t |-> "float", v |-> [kind |-> kind, neg |-> neg, ds |-> ds, e |-> e]]
FloatNum(neg, ds, e) ==
    LET x == StripTrailing(StripLeading(ds), e) IN FloatValue("finite", neg, x.ds, x.e)
Infinity(neg) == FloatValue("inf", neg, << >>, 0)
NaN == FloatValue("nan", FALSE, << >>, 0)

\* a float with one decimal, by its tenths: Float(15) is 1.5, Float(20) is 2.0
Float(tenths) == FloatNum(tenths < 0, NatToDigits(Abs(tenths)), -1)

\* float.__repr__ of a finite float: the shortest digits, with an exponent
\* when the decimal point lies more than 16 places right or 3 places left
\* of the first digit.
FloatRepr(v) ==
    LET ds == v.ds
        n == Len(ds)
        decpt == n + v.e
        exp == decpt - 1
        sign == IF v.neg THEN <<"-">> ELSE << >>
    IN
    IF ds = << >> THEN sign \o <<"0", ".", "0">>
    ELSE IF decpt > 16 \/ decpt < -3
    THEN sign \o <<ds[1]>> \o (IF n > 1 THEN <<".">> \o SubSeq(ds, 2, n) ELSE << >>)
           \o <<"e", IF exp < 0 THEN "-" ELSE "+">>
           \o (IF Abs(exp) < 10 THEN <<"0">> ELSE << >>) \o NatToDigits(Abs(exp))
    ELSE IF decpt <= 0 THEN sign \o <<"0", ".">> \o Zeros(-decpt) \o ds
    ELSE IF decpt >= n THEN sign \o ds \o Zeros(decpt - n) \o <<".", "0">>
    ELSE sign \o SubSeq(ds, 1, decpt) \o <<".">> \o SubSeq(ds, decpt + 1, n)

\* json.encoder floatstr (allow_nan=True): NaN, Infinity, -Infinity or
\* float.__repr__
EncodeFloat(v) ==
    CASE v.kind = "nan" -> <<"N", "a", "N">>
      [] v.kind = "inf" ->
            (IF v.neg THEN <<"-">> ELSE << >>) \o <<"I", "n", "f", "i", "n", "i", "t", "y">>
      [] OTHER -> FloatRepr(v)

\* The escaping of one character with the backslash left as it is.
EscapeCharQuoteOnly(c) ==
    CASE c = "\"" -> <<"\\", "\"">>
      [] c = "\n" -> <<"\\", "n">>
      [] c = "U+00E9" -> <<"\\", "u", "0", "0", "e", "9">>
      [] OTHER -> <<c>>

\* The escaping of one character of a string (ensure_ascii=True): the short
\* escapes, \uXXXX for the other characters outside ' '..'~', a surrogate
\* pair for a character beyond U+FFFF.
EscapeChar(c) ==
    CASE c = "\"" -> <<"\\", "\"">>
      [] c = "\\" -> <<"\\", "\\">>
      [] c = "\n" -> <<"\\", "n">>
      [] c = "\r" -> <<"\\", "r">>
      [] c = "\t" -> <<"\\", "t">>
      [] c = "\f" -> <<"\\", "f">>
      [] c = "U+0008" -> <<"\\", "b">>
      [] Len(c) = 1 -> <<c>>
      [] OTHER ->
            LET n == Code(c) IN
            IF n \in 32..126 THEN <<c>>
            ELSE IF n < 65536 THEN UEscape(n)
            ELSE UEscape(55296 + (((n - 65536) \div 1024) % 1024))
                   \o UEscape(56320 + ((n - 65536) % 1024))

RECURSIVE EscapeAll(_)
EscapeAll(chars) ==
    IF chars = << >> THEN << >>
    ELSE EscapeChar(Head(chars)) \o EscapeAll(Tail(chars))

EncodeString(chars) == <<"\"">> \o EscapeAll(chars) \o <<"\"">>

RECURSIVE Encode(_)
RECURSIVE EncodeItems(_)
RECURSIVE EncodeMembers(_)

\* list items, separated by ", "
EncodeItems(items) ==
    IF items = << >> THEN << >>
    ELSE Encode(Head(items))
           \o (IF Tail(items) = << >> THEN << >> ELSE <<",", " ">>)
           \o EncodeItems(Tail(items))

\* dict items "key": value, separated by ", "
EncodeMembers(items) ==
    IF items = << >> THEN << >>
    ELSE EncodeString(Head(items)[1]) \o <<":", " ">> \o Encode(Head(items)[2])
           \o (IF Tail(items) = << >> THEN << >> ELSE <<",", " ">>)
           \o EncodeMembers(Tail(items))

Encode(x) ==
    CASE x.t = "str" -> EncodeString(x.v)
      [] x.t = "int" -> EncodeInt(x.v)
      [] x.t = "float" -> EncodeFloat(x.v)
      [] x.t = "bool" -> IF x.v THEN <<"t","r","u","e">> ELSE <<"f","a","l","s","e">>
      [] x.t = "null" -> <<"n","u","l","l">>
      [] x.t = "list" -> <<"[">> \o EncodeItems(x.v) \o <<"]">>
      [] x.t = "map" -> <<"{">> \o EncodeMembers(x.v) \o <<"}">>

\* IPCMessage.to_json
ToJson(m) ==
    Encode(Map(<< <<KeyType, Str(MessageTypeValue(m.type))>>,
                  <<KeyInstanceId, m.instance_id>>,
                  <<KeyPayload, m.payload>> >>))

\* ---- json.loads ----

\* A parse result: the value and the position after it, or a failure.
Parsed(val, pos) == [ok |-> TRUE, val |-> val, pos |-> pos]
ParseError == [ok |-> FALSE, val |-> Null, pos |-> 0]

Ch(s, pos) == IF pos <= Len(s) THEN s[pos] ELSE "EOF"
IsDigit(c) == \E d \in 1..10 : Digits[d] = c
DigitValue(c) == (CHOOSE d \in 1..10 : Digits[d] = c) - 1

\* json.decoder.WHITESPACE: space, tab, line feed, carriage return
RECURSIVE SkipWs(_, _)
SkipWs(s, pos) ==
    IF Ch(s, pos) \in {" ", "\t", "\n", "\r"} THEN SkipWs(s, pos + 1) ELSE pos

\* The four hexadecimal digits of a \uXXXX escape whose backslash is at pos:
\* their value, or -1 when they are not four hexadecimal digits.
DecodeUXXXX(s, pos) ==
    IF pos + 5 <= Len(s) /\ \A k \in 2..5 : IsHex(s[pos + k])
    THEN HexVal(s[pos + 2]) * 4096 + HexVal(s[pos + 3]) * 256
           + HexVal(s[pos + 4]) * 16 + HexVal(s[pos + 5])
    ELSE -1

\* The character of a short escape, "EOF" when there is none.
Unescaped(e) ==
    CASE e = "\"" -> "\""
      [] e = "\\" -> "\\"
      [] e = "/" -> "/"
      [] e = "b" -> "U+0008"
      [] e = "f" -> "\f"
      [] e = "n" -> "\n"
      [] e = "r" -> "\r"
      [] e = "t" -> "\t"
      [] OTHER -> "EOF"

\* The characters of a string up to its closing quote; pos is after the
\* opening quote (scanstring, strict): a raw control character, an unknown
\* escape and a \u without four hexadecimal digits are errors; a high
\* surrogate followed by the escape of a low surrogate is one character.
RECURSIVE ScanString(_, _, _)
ScanString(s, pos, acc) ==
    LET c == Ch(s, pos) IN
    IF c = "\"" THEN Parsed(Str(acc), pos + 1)
    ELSE IF c = "EOF" \/ IsControl(c) THEN ParseError
    ELSE IF c = "\\"
    THEN LET e == Ch(s, pos + 1) IN
         IF e = "u"
         THEN LET uni == DecodeUXXXX(s, pos) IN
              IF uni < 0 THEN ParseError
              ELSE IF IsHighSurrogate(uni) /\ Ch(s, pos + 6) = "\\" /\ Ch(s, pos + 7) = "u"
              THEN LET uni2 == DecodeUXXXX(s, pos + 6) IN
                   IF uni2 < 0 THEN ParseError
                   ELSE IF IsLowSurrogate(uni2)
                   THEN ScanString(s, pos + 12,
                           Append(acc, CharOf(65536 + (uni - 55296) * 1024 + (uni2 - 56320))))
                   ELSE ScanString(s, pos + 6, Append(acc, CharOf(uni)))
              ELSE ScanString(s, pos + 6, Append(acc, CharOf(uni)))
         ELSE IF Unescaped(e) = "EOF" THEN ParseError
         ELSE ScanString(s, pos + 2, Append(acc, Unescaped(e)))
    ELSE ScanString(s, pos + 1, Append(acc, c))

\* A run of digits: its value, the number of digits, the position after it.
RECURSIVE ScanDigits(_, _, _, _)
ScanDigits(s, pos, val, n) ==
    IF IsDigit(Ch(s, pos))
    THEN ScanDigits(s, pos + 1, val * 10 + DigitValue(Ch(s, pos)), n + 1)
    ELSE [val |-> val, n |-> n, pos |-> pos]

\* The position after the run of digits that starts at pos.
DigitsEnd(s, pos) ==
    IF pos > Len(s) THEN pos
    ELSE CHOOSE q \in pos..(Len(s) + 1) :
             ~IsDigit(Ch(s, q)) /\ \A k \in pos..(q - 1) : IsDigit(Ch(s, k))

\* ---- float(text): exact arithmetic on naturals of any size ----
\* F(x), with x evaluated before F is applied to it: an argument of an
\* operator is otherwise evaluated where the operator first uses it, inside
\* the evaluation of what uses it.
ApplyTo(F(_), x) == CHOOSE y \in {F(v) : v \in {x}} : TRUE

\* A natural of any size is the sequence of its limbs in base 1000, the least
\* significant first and the last not zero; zero is the empty sequence.

BigStrip(a) ==
    IF a = << >> \/ \A i \in DOMAIN a : a[i] = 0 THEN << >>
    ELSE SubSeq(a, 1, CHOOSE i \in DOMAIN a : a[i] # 0 /\ \A j \in (i + 1)..Len(a) : a[j] = 0)

BigLimb(a, i) == IF i >= 1 /\ i <= Len(a) THEN a[i] ELSE 0

BigLess(a, b) ==
    IF Len(a) # Len(b) THEN Len(a) < Len(b)
    ELSE \E i \in DOMAIN a : a[i] < b[i] /\ \A j \in (i + 1)..Len(a) : a[j] = b[j]

BigOdd(a) == a # << >> /\ a[1] % 2 = 1

\* For the sums s of the limbs of two naturals, the distance from limb i
\* down to the nearest limb whose sum is not p, the sum that passes a carry
\* on; i when there is none.
CarryDistance(s, i, p) ==
    CHOOSE d \in 1..i : (d = i \/ s[i - d] # p) /\ \A e \in 1..(d - 1) : s[i - e] = p

\* a + b
AddCarry(s, i) ==
    IF CarryDistance(s, i, 999) < i
         /\ s[i - CarryDistance(s, i, 999)] >= 1000 THEN 1 ELSE 0
AddLimbs(s) == BigStrip([i \in DOMAIN s |-> (s[i] + AddCarry(s, i)) % 1000])
BigAdd(a, b) ==
    IF a = << >> THEN b
    ELSE IF b = << >> THEN a
    ELSE AddLimbs([i \in 1..((IF Len(a) > Len(b) THEN Len(a) ELSE Len(b)) + 1) |->
                     BigLimb(a, i) + BigLimb(b, i)])

\* a - b, for a >= b
SubBorrow(s, i) ==
    IF CarryDistance(s, i, 0) < i /\ s[i - CarryDistance(s, i, 0)] < 0 THEN 1 ELSE 0
SubLimbs(s) == BigStrip([i \in DOMAIN s |-> (s[i] - SubBorrow(s, i)) % 1000])
BigSub(a, b) ==
    IF b = << >> THEN a ELSE SubLimbs([i \in 1..Len(a) |-> a[i] - BigLimb(b, i)])

\* a * 1000^n
BigShift(a, n) == IF a = << >> THEN << >> ELSE [i \in 1..n |-> 0] \o a

\* a * c for a factor c of at most 1000: the product of a limb is two
\* limbs, the upper of which is added to the lower of the next.
BigTimes(a, c) ==
    IF a = << >> \/ c = 0 THEN << >>
    ELSE AddLimbs([i \in 1..(Len(a) + 1) |->
                     ((BigLimb(a, i) * c) % 1000) + ((BigLimb(a, i - 1) * c) \div 1000)])

\* a * 2^n
RECURSIVE TimesTwoTo(_, _)
TimesTwoTo(a, n) ==
    IF a = << >> THEN << >>
    ELSE IF n < 10 THEN BigTimes(a, 2^n)
    ELSE TimesTwoTo(TimesTwoTo(a, n \div 2), n - n \div 2)

\* a * 10^n
TimesTenTo(a, n) == BigShift(BigTimes(a, 10^(n % 3)), n \div 3)

Pow2(n) == TimesTwoTo(<<1>>, n)
Pow10(n) == TimesTenTo(<<1>>, n)

\* The natural that the decimal digits ds denote; DecimalDigit is the digit
\* of weight 10^p.
DecimalDigit(ds, p) == IF p < Len(ds) THEN DigitValue(ds[Len(ds) - p]) ELSE 0
BigOfDigits(ds) ==
    BigStrip([j \in 1..((Len(ds) + 2) \div 3) |->
                 DecimalDigit(ds, 3 * j - 1) * 100 + DecimalDigit(ds, 3 * j - 2) * 10
                   + DecimalDigit(ds, 3 * j - 3)])

\* The decimal digits of a, n of them.
DigitsOfBig(a, n) ==
    [i \in 1..n |-> Digits[((BigLimb(a, (n - i) \div 3 + 1) \div 10^((n - i) % 3)) % 10) + 1]]

\* The three limbs of a from limb i down, as one number.
TopLimbs(a, i) == BigLimb(a, i) * 1000000 + BigLimb(a, i - 1) * 1000 + BigLimb(a, i - 2)

\* The quotient of n by t, for a quotient below 1000: it lies between
\* the quotients of the leading limbs with those of t, and with those of n,
\* rounded up.
QuotientLimb(n, t) ==
    CHOOSE c \in (TopLimbs(n, Len(t) + 1) \div (TopLimbs(t, Len(t) + 1) + 1))
                   ..((TopLimbs(n, Len(t) + 1) + 1) \div TopLimbs(t, Len(t) + 1)) :
        /\ c < 1000
        /\ ~BigLess(n, BigTimes(t, c))
        /\ BigLess(n, BigTimes(t, c + 1))

\* The long division in base 1000 of n by t: the quotient q so far, the rest
\* n, and the limb c of weight 1000^j that comes next.
RECURSIVE DivideFrom(_, _, _, _)
DivideStep(n, t, j, q, c) ==
    IF c = 0 THEN DivideFrom(n, t, j - 1, <<0>> \o q)
    ELSE DivideFrom(BigSub(n, BigTimes(BigShift(t, j), c)), t, j - 1, <<c>> \o q)
DivideFrom(n, t, j, q) ==
    IF j < 0 THEN [q |-> BigStrip(q), rest |-> n]
    ELSE DivideStep(n, t, j, q, QuotientLimb(n, BigShift(t, j)))

\* The positive rational num/den.
Ratio(num, den) == [num |-> num, den |-> den]

\* The quotient and the rest of n by t, for a quotient below 10^18.
Divide(n, t) ==
    IF BigLess(n, t) THEN [q |-> << >>, rest |-> n] ELSE DivideFrom(n, t, 5, << >>)

\* ds * 10^e
DecimalRatio(ds, e) ==
    IF e >= 0 THEN Ratio(TimesTenTo(BigOfDigits(ds), e), <<1>>)
    ELSE Ratio(BigOfDigits(ds), Pow10(-e))

\* r * 2^j
TimesPow2(r, j) ==
    IF j >= 0 THEN Ratio(TimesTwoTo(r.num, j), r.den)
    ELSE Ratio(r.num, TimesTwoTo(r.den, -j))

\* r >= 2^j
NotBelowOne(r) == ~BigLess(r.num, r.den)
AtLeastPow2(r, j) == NotBelowOne(TimesPow2(r, -j))

\* The j of lo..hi-1 with 2^j <= r < 2^(j+1), given 2^lo <= r < 2^hi.
RECURSIVE Log2Floor(_, _, _)
Log2Floor(r, lo, hi) ==
    IF hi - lo <= 1 THEN lo
    ELSE IF AtLeastPow2(r, (lo + hi) \div 2) THEN Log2Floor(r, (lo + hi) \div 2, hi)
    ELSE Log2Floor(r, lo, (lo + hi) \div 2)

\* Bounds of the binary logarithm of a number of 10^exp up to 10^(exp+1):
\* log2(10) is 3.3219...
Log2Low(exp) == (exp * 33219) \div 10000 - 2
Log2High(exp) == ((exp + 1) * 33219) \div 10000 + 2

\* IEEE 754 round-half-even of the quotient d.q with the rest d.rest of a
\* division by den.
RoundHalfEven(d, den) ==
    IF BigLess(den, BigTimes(d.rest, 2)) \/ (BigTimes(d.rest, 2) = den /\ BigOdd(d.q))
    THEN BigAdd(d.q, <<1>>)
    ELSE d.q

\* A double: the mantissa m, below 2^53, times 2^k, with k >= -1074; "zero"
\* and "inf" are the results of an underflow and of an overflow.
Double(m, k) ==
    IF m = << >> THEN [kind |-> "zero", m |-> m, k |-> 0]
    ELSE IF m = Pow2(53) THEN
        (IF k + 1 > 971 THEN [kind |-> "inf", m |-> << >>, k |-> 0]
         ELSE [kind |-> "finite", m |-> Pow2(52), k |-> k + 1])
    ELSE [kind |-> "finite", m |-> m, k |-> k]

\* The double nearest to r, whose binary exponent is j (2^j <= r < 2^(j+1),
\* or j = -1022 for a smaller r, in the range of the subnormal doubles).
RoundedQuotient(r) == RoundHalfEven(Divide(r.num, r.den), r.den)
DoubleAt(r, j) ==
    IF j > 1023 THEN [kind |-> "inf", m |-> << >>, k |-> 0]
    ELSE Double(RoundedQuotient(TimesPow2(r, 52 - j)), j - 52)

\* The double nearest to r, a number of 10^exp up to 10^(exp+1).
NearestDouble(r, exp) ==
    IF Log2Low(exp) >= -1022 THEN DoubleAt(r, Log2Floor(r, Log2Low(exp), Log2High(exp)))
    ELSE IF ~AtLeastPow2(r, -1022) THEN DoubleAt(r, -1022)
    ELSE DoubleAt(r, Log2Floor(r, -1022, Log2High(exp)))

\* ---- float.__repr__: the shortest digits that denote a double ----
\* The double v = m * 2^k among its neighbours: v is r/s, and the halves of
\* the distances to the next double above and below are mp/s and mm/s.  The
\* double below a power of two is half as far as the one above.
Interval(r, s, mp, mm) == [r |-> r, s |-> s, mp |-> mp, mm |-> mm]

Narrow(m, k) == m = Pow2(52) /\ k > -1074

IntervalOf(m, k) ==
    IF k >= 0
    THEN Interval(TimesTwoTo(m, IF Narrow(m, k) THEN k + 2 ELSE k + 1),
                  <<IF Narrow(m, k) THEN 4 ELSE 2>>,
                  TimesTwoTo(<<1>>, IF Narrow(m, k) THEN k + 1 ELSE k), TimesTwoTo(<<1>>, k))
    ELSE Interval(BigTimes(m, IF Narrow(m, k) THEN 4 ELSE 2),
                  TimesTwoTo(<<1>>, IF Narrow(m, k) THEN 2 - k ELSE 1 - k),
                  <<IF Narrow(m, k) THEN 2 ELSE 1>>, <<1>>)

\* The interval in units of 10^p: v is r/s units.
InUnits(iv, p) ==
    IF p >= 0 THEN Interval(iv.r, TimesTenTo(iv.s, p), iv.mp, iv.mm)
    ELSE Interval(TimesTenTo(iv.r, -p), iv.s, TimesTenTo(iv.mp, -p), TimesTenTo(iv.mm, -p))

\* The whole units below v and the rest of v, as an interval around the rest.
Floor(iv) == Divide(iv.r, iv.s)
RestOf(iv, d) == Interval(d.rest, iv.s, iv.mp, iv.mm)

\* The whole number of units above v, or below it, rounds to the double:
\* the ends of the interval round to it when the mantissa is even.
ReachesHigh(iv, even) ==
    IF even THEN ~BigLess(BigAdd(iv.r, iv.mp), iv.s) ELSE BigLess(iv.s, BigAdd(iv.r, iv.mp))
ReachesLow(iv, even) ==
    IF even THEN ~BigLess(iv.mm, iv.r) ELSE BigLess(iv.r, iv.mm)
Reaches(iv, even) == ReachesLow(iv, even) \/ ReachesHigh(iv, even)

\* Some number of whole units of 10^p rounds to the double.
DenotesIn(iv, even) == Reaches(RestOf(iv, Floor(iv)), even)
Denotes(iv, p, even) == DenotesIn(InUnits(iv, p), even)

\* The largest p of lo..hi-1 such that a number of whole units of 10^p
\* rounds to the double, given that one does for lo and none for hi.
RECURSIVE LargestUnit(_, _, _, _)
LargestUnit(iv, lo, hi, even) ==
    IF hi - lo <= 1 THEN lo
    ELSE IF Denotes(iv, (lo + hi) \div 2, even) THEN LargestUnit(iv, (lo + hi) \div 2, hi, even)
    ELSE LargestUnit(iv, lo, (lo + hi) \div 2, even)

\* The number of units that denotes the double, for v of q whole units and
\* the rest: the nearer of q and q + 1 when both round to it, the even one
\* when they are as near.
NearerUnits(rest, q, even) ==
    IF ~ReachesHigh(rest, even) THEN q
    ELSE IF ~ReachesLow(rest, even) THEN BigAdd(q, <<1>>)
    ELSE IF BigLess(BigTimes(rest.r, 2), rest.s) THEN q
    ELSE IF BigLess(rest.s, BigTimes(rest.r, 2)) THEN BigAdd(q, <<1>>)
    ELSE IF BigOdd(q) THEN BigAdd(q, <<1>>) ELSE q
UnitsOf(iv, d, even) == NearerUnits(RestOf(iv, d), d.q, even)
Units(iv, even) == UnitsOf(iv, Floor(iv), even)

\* The shortest digits that denote the double m * 2^k, a number of 10^(exp-1)
\* up to 10^(exp+2): the digits ds and the exponent e of ds * 10^e.  At most
\* 17 digits are needed.
DigitsAt(q, p) ==
    IF q = << >> THEN [ds |-> << >>, e |-> 0]
    ELSE StripTrailing(StripLeading(DigitsOfBig(q, 18)), p)
DigitsIn(iv, p, even) == DigitsAt(Units(InUnits(iv, p), even), p)
DigitsFor(iv, exp, even) ==
    ApplyTo(LAMBDA p : DigitsIn(iv, p, even), LargestUnit(iv, exp - 17, exp + 2, even))
ShortestDigits(m, k, exp) ==
    ApplyTo(LAMBDA iv : DigitsFor(iv, exp, ~BigOdd(m)), IntervalOf(m, k))

\* The float that the double d is.
FloatDigits(neg, x) == FloatValue("finite", neg, x.ds, x.e)
FloatOf(neg, d, exp) ==
    IF d.kind = "zero" THEN FloatNum(neg, << >>, 0)
    ELSE IF d.kind = "inf" THEN Infinity(neg)
    ELSE FloatDigits(neg, ShortestDigits(d.m, d.k, exp))

\* float(text) for the digits ds, without a zero at either end, times 10^e.
\* Above 10^310 the result is an infinity and below 10^-326 it is zero; a
\* text of at most 15 digits in the range of the normal doubles denotes the
\* double that float.__repr__ writes with the same digits (two such texts
\* are further apart than two doubles); every other text is rounded to the
\* nearest double.
RoundedDigits(neg, ds, e) ==
    IF ds = << >> THEN FloatNum(neg, << >>, 0)
    ELSE IF Len(ds) + e - 1 > 309 THEN Infinity(neg)
    ELSE IF Len(ds) + e - 1 < -326 THEN FloatNum(neg, << >>, 0)
    ELSE IF Len(ds) <= 15 /\ Len(ds) + e - 1 >= -307 /\ Len(ds) + e - 1 <= 307
    THEN FloatNum(neg, ds, e)
    ELSE FloatOf(neg, ApplyTo(LAMBDA r : NearestDouble(r, Len(ds) + e - 1), DecimalRatio(ds, e)),
                 Len(ds) + e - 1)
RoundedStripped(neg, x) == RoundedDigits(neg, x.ds, x.e)

\* float(text): the double nearest to ds * 10^e.
Rounded(neg, ds, e) == RoundedStripped(neg, StripTrailing(StripLeading(ds), e))

\* The end of the integer part, 0|[1-9]\d*, that starts at p1: p1 when there
\* is none.
IntEnd(s, p1) == IF Ch(s, p1) = "0" THEN p1 + 1 ELSE DigitsEnd(s, p1)

\* The end of the fraction, \.\d+, that starts at iend: iend when there is none.
FracEnd(s, iend) ==
    IF Ch(s, iend) = "." /\ IsDigit(Ch(s, iend + 1)) THEN DigitsEnd(s, iend + 1) ELSE iend

\* The exponent whose digits were scanned as d after the e at q: nothing is
\* consumed when no digit follows.
ExponentDigits(q, minus, d) ==
    IF d.n = 0 THEN [n |-> 0, val |-> 0, pos |-> q]
    ELSE [n |-> d.n, val |-> IF minus THEN -d.val ELSE d.val, pos |-> d.pos]

\* The exponent, [eE][-+]?\d+, that starts at q: the number n of its digits
\* (0 when there is none), its value and the position after it.
Exponent(s, q) ==
    IF Ch(s, q) \notin {"e", "E"} THEN [n |-> 0, val |-> 0, pos |-> q]
    ELSE ExponentDigits(q, Ch(s, q + 1) = "-",
                        ScanDigits(s, IF Ch(s, q + 1) \in {"+", "-"} THEN q + 2 ELSE q + 1, 0, 0))

\* The number whose integer part is s[p1..iend-1], whose fraction ends before
\* fend and whose exponent is ep: an int, or a float when it has a fraction
\* or an exponent.
NumberOf(s, neg, p1, iend, fend, ep) ==
    IF iend = p1 THEN ParseError
    ELSE IF fend = iend /\ ep.n = 0
    THEN Parsed(Num(IF neg THEN -ScanDigits(SubSeq(s, p1, iend - 1), 1, 0, 0).val
                    ELSE ScanDigits(SubSeq(s, p1, iend - 1), 1, 0, 0).val),
                iend)
    ELSE Parsed(Rounded(neg, SubSeq(s, p1, iend - 1) \o SubSeq(s, iend + 1, fend - 1),
                        ep.val - (IF fend = iend THEN 0 ELSE fend - iend - 1)),
                ep.pos)

\* The number whose integer part is s[p1..iend-1], with the fraction and the
\* exponent that follow it.
NumberWithInt(s, neg, p1, iend) ==
    NumberOf(s, neg, p1, iend, FracEnd(s, iend), Exponent(s, FracEnd(s, iend)))

\* json.scanner NUMBER_RE, (-?(?:0|[1-9]\d*))(\.\d+)?([eE][-+]?\d+)?
ParseNumber(s, pos) ==
    IF Ch(s, pos) = "-" THEN NumberWithInt(s, TRUE, pos + 1, IntEnd(s, pos + 1))
    ELSE NumberWithInt(s, FALSE, pos, IntEnd(s, pos))

Literal(s, pos, word, val) ==
    IF pos + Len(word) - 1 <= Len(s) /\ SubSeq(s, pos, pos + Len(word) - 1) = word
    THEN Parsed(val, pos + Len(word))
    ELSE ParseError

\* The number x that NUMBER_RE matched at pos, where a "-" or a digit is; when
\* it matched none, the constant -Infinity.
NumberElse(s, pos, x) ==
    IF x.ok THEN x
    ELSE IF Ch(s, pos) = "-"
    THEN Literal(s, pos, <<"-","I","n","f","i","n","i","t","y">>, Infinity(TRUE))
    ELSE ParseError

RECURSIVE ParseValue(_, _)
RECURSIVE ParseItems(_, _, _)
RECURSIVE ParseMembers(_, _, _)

\* The items of a list; pos is at the first item.
ParseItems(s, pos, acc) ==
    LET x == ParseValue(s, SkipWs(s, pos)) IN
    IF ~x.ok THEN ParseError
    ELSE LET after == SkipWs(s, x.pos) IN
         IF Ch(s, after) = "," THEN ParseItems(s, after + 1, Append(acc, x.val))
         ELSE IF Ch(s, after) = "]" THEN Parsed(List(Append(acc, x.val)), after + 1)
         ELSE ParseError

\* d[key] = value while an object is read: a repeated key keeps its place and
\* takes the later value.
PutMember(items, key, val) ==
    IF \E k \in DOMAIN items : items[k][1] = key
    THEN [k \in DOMAIN items |-> IF items[k][1] = key THEN <<key, val>> ELSE items[k]]
    ELSE Append(items, <<key, val>>)

\* The members of an object; pos is at the first key.
ParseMembers(s, pos, acc) ==
    LET at == SkipWs(s, pos) IN
    IF Ch(s, at) # "\"" THEN ParseError
    ELSE LET key == ScanString(s, at + 1, << >>) IN
         IF ~key.ok THEN ParseError
         ELSE LET colon == SkipWs(s, key.pos) IN
              IF Ch(s, colon) # ":" THEN ParseError
              ELSE LET x == ParseValue(s, SkipWs(s, colon + 1)) IN
                   IF ~x.ok THEN ParseError
                   ELSE LET after == SkipWs(s, x.pos)
                            items == PutMember(acc, key.val.v, x.val)
                        IN
                        IF Ch(s, after) = "," THEN ParseMembers(s, after + 1, items)
                        ELSE IF Ch(s, after) = "}" THEN Parsed(Map(items), after + 1)
                        ELSE ParseError

\* json.scanner scan_once: a string, an object, an array, null, true, false,
\* a number, NaN, Infinity, -Infinity.
ParseValue(s, pos) ==
    LET c == Ch(s, pos) IN
    IF c = "\"" THEN ScanString(s, pos + 1, << >>)
    ELSE IF c = "{"
    THEN IF Ch(s, SkipWs(s, pos + 1)) = "}"
         THEN Parsed(Map(<< >>), SkipWs(s, pos + 1) + 1)
         ELSE ParseMembers(s, pos + 1, << >>)
    ELSE IF c = "["
    THEN IF Ch(s, SkipWs(s, pos + 1)) = "]"
         THEN Parsed(List(<< >>), SkipWs(s, pos + 1) + 1)
         ELSE ParseItems(s, pos + 1, << >>)
    ELSE IF c = "t" THEN Literal(s, pos, <<"t","r","u","e">>, Bool(TRUE))
    ELSE IF c = "f" THEN Literal(s, pos, <<"f","a","l","s","e">>, Bool(FALSE))
    ELSE IF c = "n" THEN Literal(s, pos, <<"n","u","l","l">>, Null)
    ELSE IF c = "-" \/ IsDigit(c) THEN NumberElse(s, pos, ParseNumber(s, pos))
    ELSE IF c = "N" THEN Literal(s, pos, <<"N","a","N">>, NaN)
    ELSE IF c = "I"
    THEN Literal(s, pos, <<"I","n","f","i","n","i","t","y">>, Infinity(FALSE))
    ELSE ParseError

\* json.loads: one value, nothing but white space around it; a text that
\* starts with the byte order mark is refused.
LoadsValue(s, x) ==
    IF Ch(s, 1) # "U+FEFF" /\ x.ok /\ SkipWs(s, x.pos) = Len(s) + 1 THEN x ELSE ParseError
Loads(s) == LoadsValue(s, ParseValue(s, SkipWs(s, 1)))

HasKey(x, key) == x.t = "map" /\ \E k \in DOMAIN x.v : x.v[k][1] = key
Get(x, key) == x.v[CHOOSE k \in DOMAIN x.v : x.v[k][1] = key][2]

\* MessageType(value): the member with that value, if there is one.
IsMessageTypeValue(x) ==
    x.t = "str" /\ \E type \in MessageTypes : MessageTypeValue(type) = x.v
MessageType(x) == CHOOSE type \in MessageTypes : MessageTypeValue(type) = x.v

NoMessage == IPCMessage("ERROR", Null, Null)

\* IPCMessage.from_json: ok is FALSE when it raises.
FromData(data) ==
    IF /\ data.ok
       /\ HasKey(data.val, KeyType)
       /\ HasKey(data.val, KeyInstanceId)
       /\ HasKey(data.val, KeyPayload)
       /\ IsMessageTypeValue(Get(data.val, KeyType))
    THEN [ok |-> TRUE,
          msg |-> IPCMessage(MessageType(Get(data.val, KeyType)),
                             Get(data.val, KeyInstanceId),
                             Get(data.val, KeyPayload))]
    ELSE [ok |-> FALSE, msg |-> NoMessage]
FromJson(s) == FromData(Loads(s))

\* ---- the envelopes that are sent through the wire format ----

SampleScalars ==
    { Str(<< >>), Str(<<"a", "\"">>), Str(<<"\\", "n", "\n", "U+00E9">>),
      Str(<<"\t", "/", "U+0008", "U+007F", "U+1F600">>),
      Num(0), Num(-12), Num(305),
      Float(15), Float(-5), Float(20),
      FloatNum(FALSE, <<"1">>, 16), FloatNum(TRUE, <<"1", "2", "5">>, -7),
      FloatNum(FALSE, <<"3","0","0","0","0","0","0","0","0","0","0","0","0","0","0","0","4">>, -17),
      Bool(TRUE), Bool(FALSE), Null }
SamplePads == { Num(7), Str(<<"\\">>) }
SampleKeys == { <<"k">>, <<"a", "\"", "\\">> }
SampleKeyPairs == { p \in SampleKeys \X SampleKeys : p[1] # p[2] }
SampleIds == { Str(<<"c", "_", "1">>), Str(<<"\"", "\\">>) }

\* The values of nesting depth at most d: scalars, lists of at most two items
\* and dicts of at most two items.
RECURSIVE Values(_)
Values(d) ==
    IF d = 0 THEN SampleScalars
    ELSE LET inner == Values(d - 1) IN
         SampleScalars
           \cup { List(<< >>), Map(<< >>) }
           \cup { List(<<x>>) : x \in inner }
           \cup { List(<<x, y>>) : x \in inner, y \in SamplePads }
           \cup { Map(<< <<k, x>> >>) : k \in SampleKeys, x \in inner }
           \cup { Map(<< <<p[1], y>>, <<p[2], x>> >>) :
                    p \in SampleKeyPairs, y \in SamplePads, x \in inner }

Payloads ==
    { Map(<< >>) } \cup { Map(<< <<k, x>> >>) : k \in SampleKeys, x \in Values(MaxDepth) }

to_json ==
    /\ msg_pc = "built"
    /\ wire' = ToJson(msg)
    /\ msg_pc' = "encoded"
    /\ UNCHANGED <<msg, decoded>>
    /\ MsgFrame

from_json ==
    /\ msg_pc = "encoded"
    /\ decoded' = FromJson(wire)
    /\ msg_pc' = "decoded"
    /\ UNCHANGED <<msg, wire>>
    /\ MsgFrame

MsgInit ==
    /\ msg \in { IPCMessage(type, id, payload) :
                    type \in MessageTypes, id \in SampleIds, payload \in Payloads }
    /\ wire = << >>
    /\ decoded = [ok |-> FALSE, msg |-> NoMessage]
    /\ msg_pc = "built"

\* The state of the envelope variables in the specifications of the other
\* components.
MsgIdle ==
    /\ msg = NoMessage
    /\ wire = << >>
    /\ decoded = [ok |-> FALSE, msg |-> NoMessage]
    /\ msg_pc = "built"

MsgNext == to_json \/ from_json

(***************************************************************************)
(* Specifications                                                          *)
(***************************************************************************)

Init == UMInit /\ SupInit /\ MsgIdle /\ WkInit /\ PlInit /\ GridInit /\ TermInit /\ PxInit /\ HookInit

SpecUM == Init /\ [][UMNext]_vars

SpecSup == Init /\ [][SupNext]_vars

\* The other components idle while an envelope goes through the wire format.
InitMsg == UMInit /\ SupInit /\ MsgInit /\ WkInit /\ PlInit /\ GridInit /\ TermInit /\ PxInit /\ HookInit

SpecMsg == InitMsg /\ [][MsgNext]_vars

\* The message loop of one worker.
SpecWk == Init /\ [][WkNext]_vars

\* The lifecycle calls on one plugin object.
SpecPl == Init /\ [][PlNext]_vars

\* The calls on one grid controller.
SpecGrid == Init /\ [][GridNext]_vars

\* The steps of terminate_plugin.
SpecTerm == Init /\ [][TermNext]_vars

\* The scheduler calls considered for starvation: requests for every instance
\* at any time, the configuration, the hidden and the visible instance, the
\* ticks, clear_pending and the clock.
UMLiveNext ==
    \/ \E i \in UMInstanceIds : request_update(i, "timer")
    \/ \E i \in ConfiguredIds, c \in ConfigChoices : set_throttle_config(i, c)
    \/ \E ids \in {{}, {"links_001"}} : set_visible_instances(ids)
    \/ process_queue
    \/ \E i \in UMInstanceIds : clear_pending(i)
    \/ \E d \in ClockSteps : AdvanceClock(d)

\* The scheduler whose timer keeps ticking (the QTimer started in __init__
\* fires every 50 ms) while the wall clock keeps advancing.
SpecUMLive ==
    /\ Init /\ [][UMLiveNext]_vars
    /\ WF_vars(process_queue)
    /\ WF_vars(\E d \in ClockSteps : AdvanceClock(d))

\* The scheduler with listeners that call back during a tick.
SpecHook == Init /\ [][HookNext]_vars

\* The calls on one plugin proxy and what happens to its worker.
SpecPx == Init /\ [][PxNext]_vars

(***************************************************************************)
(* Properties of the dispatch order                                        *)
(***************************************************************************)

\* C30: in one run of _process_queue the notifications (the entries of
\* Dispatched, in order) for visible instances all come before those for
\* instances that are not visible, and of two instances of the same
\* visibility the one whose pending entry was created earlier is notified
\* first.
C30_TickOrder ==
    [][ process_queue
        => LET d == Dispatched(um_now) IN
           \A j, k \in DOMAIN d :
              j < k
              => /\ d[k].instance_id \in visible_instances
                    => d[j].instance_id \in visible_instances
                 /\ (d[j].instance_id \in visible_instances
                        <=> d[k].instance_id \in visible_instances)
                    => d[j].requested_at <= d[k].requested_at ]_vars

(***************************************************************************)
(* Properties of the supervisor                                            *)
(***************************************************************************)

SupState == <<processes, next_port, proc, sock, wk, inbox>>

\* The worker's replies to the INIT and the START of a spawn that goes as o:
\* "ok", "error", or "None" when the reply does not come within the timeout.
InitReply(o) ==
    IF o.init = "in_time" THEN handle_message(NewWorker, "INIT", o.b_init).reply ELSE "None"
StartReply(o) ==
    IF o.start = "in_time"
    THEN handle_message(handle_message(NewWorker, "INIT", o.b_init).w, "START", o.b_start).reply
    ELSE "None"
HandshakeDone(o) ==
    o.stage = "handshake" /\ InitReply(o) = "ok" /\ StartReply(o) = "ok"

\* C1: spawn_plugin registers a record, and returns True, exactly when the
\* instance was not tracked and the worker replied ok to INIT and then to START
\* in time; on every other outcome it returns False and the table is the one
\* before the call. And every record of the table whose worker runs belongs to
\* a worker that has completed INIT and START.
C1_SpawnRegisters ==
    /\ [][ last'.op = "spawn" =>
           \A i \in SupInstanceIds, pid \in PluginIds, o \in SpawnOutcomes :
             spawn_plugin(i, pid, o) =>
               IF i \notin Tracked /\ HandshakeDone(o)
               THEN /\ last'.result = "True"
                    /\ Tracked' = Tracked \cup {i}
                    /\ processes'[i] = PluginProcess(i, pid, next_port)
                    /\ \A j \in Tracked : processes'[j] = processes[j]
               ELSE /\ last'.result = "False"
                    /\ processes' = processes ]_vars
    /\ [](\A i \in Tracked :
             proc[PortOf(i)] = "running" =>
                /\ wk[PortOf(i)].plugin = "instance"
                /\ wk[PortOf(i)].inited
                /\ wk[PortOf(i)].started)

\* A spawn has registered a second record after an earlier spawn attempt.
C1_Witness ==
    /\ last.op = "spawn"
    /\ last.result = "True"
    /\ next_port = base_port + 2
    /\ \E i \in Tracked : PortOf(i) = base_port + 1 /\ proc[PortOf(i)] = "running"

\* C2, as claimed: when spawn_plugin returns False having started a worker
\* process, that process is no longer running and its transport (if one was
\* opened) is closed.
C2_NoOrphan ==
    [][ \A i \in SupInstanceIds, pid \in PluginIds, o \in SpawnOutcomes :
          ( /\ spawn_plugin(i, pid, o)
            /\ i \notin Tracked
            /\ last'.result = "False"
            /\ proc'[next_port] # "none" )
          => /\ proc'[next_port] = "exited"
             /\ sock'[next_port] \in {"none", "closed"} ]_vars

\* C3: after terminate_plugin(i) the instance is not in the table, whichever
\* way the termination went, and the call does not raise; for an instance that
\* is not in the table the call changes nothing.
C3_TerminateRemoves ==
    [][ last'.op = "terminate" =>
        \A i \in SupInstanceIds, o \in TerminateOutcomes :
          terminate_plugin(i, o) =>
            /\ i \notin Tracked'
            /\ last'.result = "None"
            /\ \A j \in Tracked \ {i} : j \in Tracked' /\ processes'[j] = processes[j]
            /\ i \notin Tracked => UNCHANGED SupState ]_vars

\* terminate_plugin has removed a record on a path where a termination step
\* raised: the worker it gave up tracking still runs.
C3_Witness ==
    /\ last.op = "terminate"
    /\ last.removed = 1
    /\ \E p \in Ports :
          /\ proc[p] = "running"
          /\ sock[p] \in {"ready", "awaiting"}
          /\ \A i \in Tracked : PortOf(i) # p

\* C4, as claimed: every terminate_plugin of a tracked instance leaves that
\* instance's transport closed.
C4_TransportClosed ==
    [][ \A i \in SupInstanceIds, o \in TerminateOutcomes :
          (i \in Tracked /\ terminate_plugin(i, o))
              => sock'[PortOf(i)] = "closed" ]_vars

\* C5: check_health removes exactly the records whose process has exited,
\* closing their transports, and leaves the records, processes, transports and
\* workers of the live ones as they were; send_update for a removed instance
\* then returns False.
C5_CheckHealth ==
    [][ check_health =>
          /\ Tracked' = { i \in Tracked : proc[PortOf(i)] = "running" }
          /\ \A i \in Tracked \ Tracked' : sock'[PortOf(i)] = "closed"
          /\ \A i \in Tracked' :
                /\ processes'[i] = processes[i]
                /\ proc'[PortOf(i)] = proc[PortOf(i)]
                /\ sock'[PortOf(i)] = sock[PortOf(i)]
                /\ wk'[PortOf(i)] = wk[PortOf(i)]
                /\ inbox'[PortOf(i)] = inbox[PortOf(i)]
          /\ \A i \in Tracked \ Tracked', t \in Timings, b \in BehavioursFor("UPDATE") :
                SendUpdateReturn(i, t, b)' = "False" ]_vars

\* check_health has removed the record of a dead worker and kept the record of
\* a live one.
C5_Witness ==
    /\ last.op = "check_health"
    /\ last.removed = 1
    /\ \E i \in Tracked : proc[PortOf(i)] = "running"

\* C10: for an instance without a record, send_update and update_settings
\* return False and request_render returns None; none of them raises, sends a
\* message or changes the table.
C10_NoRecord ==
    [][ \A i \in SupInstanceIds \ Tracked, t \in Timings :
          /\ (last'.op = "send_update"
                /\ \E b \in BehavioursFor("UPDATE") : send_update(i, t, b))
                => last'.result = "False" /\ UNCHANGED SupState
          /\ (last'.op = "request_render"
                /\ \E b \in BehavioursFor("RENDER") : request_render(i, t, b))
                => last'.result = "None" /\ UNCHANGED SupState
          /\ (last'.op = "update_settings"
                /\ \E b \in BehavioursFor("SETTINGS_CHANGED") : update_settings(i, t, b))
                => last'.result = "False" /\ UNCHANGED SupState ]_vars

\* update_settings on a supervisor that never spawned anything returned False.
C10_Witness ==
    /\ last.op = "update_settings"
    /\ last.result = "False"
    /\ Tracked = {}
    /\ next_port = base_port

(***************************************************************************)
(* Properties of the update scheduler                                      *)
(***************************************************************************)

\* C6 (coalescing): when N >= 1 request_update calls for an instance have been
\* made since it last had no pending entry, each within the coalesce window
\* that the first one opened and with no dispatch in between, the instance has
\* exactly one pending entry and its coalesced_count is N - 1.
C6_Coalescing ==
    \A i \in UMInstanceIds :
        um_calls[i] >= 1 =>
            /\ Cardinality({ k \in DOMAIN pending : pending[k].instance_id = i }) = 1
            /\ PendingOf(i).coalesced_count = um_calls[i] - 1

\* A burst of three calls, coalesced beyond the instance's max_pending.
C6_Witness ==
    \E i \in UMInstanceIds :
        /\ um_calls[i] = 3
        /\ IsPending(i)
        /\ PendingOf(i).coalesced_count > ConfigOf(i).max_pending

\* C7 (throttling): a tick that dispatches an instance which was dispatched
\* before (with no reset_throttle for it in between) does so at least
\* min_interval_ms after that earlier dispatch.
C7_Throttling ==
    [][ \A i \in UMInstanceIds :
          (process_queue /\ i \in DispatchedIds(um_now) /\ um_ndisp[i] >= 1)
              => um_now - um_prev[i] >= ConfigOf(i).min_interval_ms ]_vars

\* An instance dispatched twice in a row that is pending again and held back
\* by its throttle.
C7_Witness ==
    \E i \in UMInstanceIds :
        /\ um_ndisp[i] = 2
        /\ IsPending(i)
        /\ Throttled(i, um_now)

\* C8 (backpressure), as claimed: a request_update for an instance whose
\* pending entry has coalesced_count at (or above) max_pending is dropped and
\* leaves the pending map unchanged.
C8_Backpressure ==
    [][ \A i \in UMInstanceIds :
          ( /\ IsPending(i)
            /\ PendingOf(i).coalesced_count >= ConfigOf(i).max_pending
            /\ \E r \in Reasons : request_update(i, r) )
              => pending' = pending ]_vars

\* The pending instances whose throttle lets them through at time now: no
\* recorded last dispatch, or one at least min_interval_ms old.
Due(now) ==
    { i \in PendingIds :
         \/ i \notin DOMAIN last_update
         \/ now - last_update[i] >= ConfigOf(i).min_interval_ms }

\* C31: a tick dispatches exactly the pending instances that are due, each
\* once and with the reason of its pending entry; for each of them it records
\* the tick time as last dispatch and removes the pending entry; the pending
\* entries and last-dispatch times of the throttled instances stay as they are.
C31_Tick ==
    [][ process_queue
        => LET now == um_now
               d == Dispatched(now)
           IN
           /\ { d[k].instance_id : k \in DOMAIN d } = Due(now)
           /\ \A j, k \in DOMAIN d : d[j].instance_id = d[k].instance_id => j = k
           /\ \A k \in DOMAIN d : d[k].reason = PendingOf(d[k].instance_id).reason
           /\ \A i \in Due(now) :
                 /\ i \in DOMAIN last_update'
                 /\ last_update'[i] = now
                 /\ i \notin PendingIds'
           /\ \A i \in PendingIds \ Due(now) :
                 /\ i \in PendingIds'
                 /\ PendingOf(i)' = PendingOf(i)
                 /\ last_update'[i] = last_update[i]
           /\ PendingIds' = PendingIds \ Due(now)
           /\ \A i \in DOMAIN last_update \ PendingIds :
                 i \in DOMAIN last_update' /\ last_update'[i] = last_update[i]
           /\ DOMAIN last_update' = DOMAIN last_update \cup Due(now) ]_vars

\* A tick has just dispatched one instance while another, pending, stays
\* throttled.
C31_Witness ==
    \E i, j \in UMInstanceIds :
        /\ i # j
        /\ um_ndisp[i] >= 1
        /\ um_prev[i] = um_now
        /\ ~IsPending(i)
        /\ IsPending(j)
        /\ Throttled(j, um_now)

\* C34, as claimed: while an instance stays pending, the requested_at and the
\* reason of its entry do not change and its coalesced_count does not
\* decrease, whatever request_update calls arrive.
C34_EntryStable ==
    [][ \A i \in UMInstanceIds :
          (IsPending(i) /\ IsPending(i)')
             => /\ PendingOf(i)'.requested_at = PendingOf(i).requested_at
                /\ PendingOf(i)'.reason = PendingOf(i).reason
                /\ PendingOf(i)'.coalesced_count >= PendingOf(i).coalesced_count ]_vars

\* C32: reset_throttle(i) removes i's last-dispatch time and leaves the
\* pending map and the other instances' times alone; a tick dispatches every
\* pending instance that has no last-dispatch time, however recent its last
\* dispatch was.  clear_pending(i) removes i's pending entry and leaves the
\* last-dispatch times and the other entries alone; a tick does not dispatch
\* an instance without a pending entry.  Both change nothing for an instance
\* they do not know.
C32_EscapeHatches ==
    [][ \A i \in UMInstanceIds :
          /\ reset_throttle_lifting(i)
                => /\ pending' = pending
                   /\ i \notin DOMAIN last_update'
                   /\ \A j \in DOMAIN last_update \ {i} :
                         j \in DOMAIN last_update' /\ last_update'[j] = last_update[j]
                   /\ i \notin DOMAIN last_update => last_update' = last_update
          /\ clear_pending(i)
                => /\ last_update' = last_update
                   /\ PendingIds' = PendingIds \ {i}
                   /\ \A j \in PendingIds \ {i} : PendingOf(j)' = PendingOf(j)
                   /\ i \notin PendingIds => pending' = pending
          \* no tick leaves out a pending instance whose throttle was reset
          /\ ( /\ IsPending(i)
               /\ i \notin DOMAIN last_update
               /\ ~(i \in DOMAIN last_update' /\ last_update'[i] = um_now) )
                => ~ \E cb \in Listeners : process_queue_listeners(cb)
          \* no tick dispatches an instance that is not pending
          /\ ( /\ ~IsPending(i)
               /\ \/ (i \in DOMAIN last_update) # (i \in DOMAIN last_update')
                  \/ i \in DOMAIN last_update /\ last_update'[i] # last_update[i] )
                => ~ \E cb \in Listeners : process_queue_listeners(cb) ]_vars

\* reset_throttle has lifted the running throttle of a pending instance, and
\* the tick that comes dispatches it.
C32_Witness ==
    \E i \in UMInstanceIds :
        /\ i \in um_lifted
        /\ um_now < ThrottleConfig.min_interval_ms
        /\ IsPending(i)
        /\ i \in DispatchedIds(um_now)

\* The throttle of instance i ends within the time the model covers.
ThrottleEnds(i) ==
    \/ i \notin DOMAIN last_update
    \/ last_update[i] + ConfigOf(i).min_interval_ms <= MaxTime

\* C35: with the timer ticking and the clock advancing, every pending
\* instance, visible or hidden, stops being pending: it is dispatched (or
\* cleared) however the other instances request and are dispatched; and a tick
\* dispatches a hidden instance that is due along with the visible ones.
C35_NoStarvation ==
    /\ \A i \in UMInstanceIds : (IsPending(i) /\ ThrottleEnds(i)) ~> ~IsPending(i)
    /\ [][ process_queue
           => \A i \in Due(um_now) \ visible_instances :
                 /\ i \in DispatchedIds(um_now)
                 /\ last_update'[i] = um_now ]_vars

\* A hidden instance has been dispatched for the second time, its throttle
\* interval over, while a visible instance is pending.
C35_Witness ==
    \E i, j \in UMInstanceIds :
        /\ i \notin visible_instances
        /\ j \in visible_instances
        /\ um_ndisp[i] = 2
        /\ um_prev[i] = um_now
        /\ ~IsPending(i)
        /\ IsPending(j)

\* C36, as claimed: a request_update(i) made by a listener while i is being
\* dispatched leaves i pending when the tick ends, and a clear_pending(i) made
\* by a listener during i's dispatch does not make the tick raise nor keep it
\* from removing the entries of the other dispatched instances.
C36_Listeners ==
    [][ \A cb \in Listeners :
          process_queue_listeners(cb)
             => /\ um_tick' = "ok"
                /\ \A i \in DispatchedIds(um_now) :
                      IF cb[i] = "request_update"
                      THEN i \in PendingIds'
                      ELSE i \notin PendingIds' ]_vars

\* C11: no supervisor operation raises: spawn, send_update and update_settings
\* return True or False, request_render a payload or None, terminate,
\* check_health and shutdown_all None; and the response send_and_receive hands
\* to them is a message or None, whatever the worker and the socket do.
C11_NoRaise ==
    /\ last.op = "spawn" => last.result \in {"True", "False"}
    /\ last.op \in {"send_update", "update_settings"} => last.result \in {"True", "False"}
    /\ last.op = "request_render" => last.result \in {"payload", "None"}
    /\ last.op \in {"terminate", "check_health", "shutdown_all"} => last.result = "None"
    /\ \A p \in Ports, kind \in {"UPDATE", "RENDER", "SETTINGS_CHANGED"}, t \in Timings :
          \A b \in BehavioursFor(kind) :
             SendAndReceive(p, kind, t, b).resp \in {"ok", "error", "None"}

\* send_update has returned False for a tracked instance whose process is dead:
\* the request went out and no reply came.
C11_Witness ==
    /\ last.op = "send_update"
    /\ last.result = "False"
    /\ \E i \in Tracked : proc[PortOf(i)] = "exited" /\ sock[PortOf(i)] = "awaiting"

\* C12: shutdown_all empties the process table, every instance that was in it
\* having gone through terminate_plugin (its transport closed, or left with the
\* SHUTDOWN unanswered where a termination step raised), and returns None; on
\* an empty table it changes nothing.
C12_ShutdownAll ==
    [][ (last'.op = "shutdown_all" /\ shutdown_all) =>
          /\ Tracked' = {}
          /\ last'.result = "None"
          /\ last'.removed = Cardinality(Tracked)
          /\ \A i \in Tracked : sock'[PortOf(i)] \in {"closed", "awaiting"}
          /\ Tracked = {} => UNCHANGED SupState ]_vars

\* shutdown_all has removed two records at once.
C12_Witness ==
    /\ last.op = "shutdown_all"
    /\ last.removed = 2
    /\ Tracked = {}

\* C13: spawn_plugin for an instance that has a record returns False and
\* changes neither the port counter, nor the record, nor any process or
\* transport.
C13_DuplicateSpawn ==
    [][ last'.op = "spawn" =>
        \A i \in Tracked, pid \in PluginIds, o \in SpawnOutcomes :
           spawn_plugin(i, pid, o) => last'.result = "False" /\ UNCHANGED SupState ]_vars

\* A spawn was refused for the one instance that was ever spawned.
C13_Witness ==
    /\ last.op = "spawn"
    /\ last.result = "False"
    /\ next_port = base_port + 1
    /\ \E i \in Tracked : PortOf(i) = base_port /\ proc[base_port] = "running"

\* C14: the port counter never decreases; every spawn attempt for an instance
\* without a record takes the port of the counter and moves the counter on,
\* whether it succeeds or not; the ports from the counter on have never been
\* used, and the records of the table have pairwise distinct ports below it.
C14_Ports ==
    /\ [][ /\ next_port' >= next_port
           /\ last'.op = "spawn" =>
                \A i \in SupInstanceIds \ Tracked, pid \in PluginIds, o \in SpawnOutcomes :
                   spawn_plugin(i, pid, o) =>
                      /\ next_port' = next_port + 1
                      /\ i \in Tracked' => PortOf(i)' = next_port ]_vars
    /\ [](/\ \A i \in Tracked : PortOf(i) \in base_port .. (next_port - 1)
          /\ \A i, j \in Tracked : i # j => PortOf(i) # PortOf(j)
          /\ \A p \in Ports : p >= next_port => proc[p] = "none" /\ sock[p] = "none")

\* Two records are in the table, on two endpoints.
C14_Witness ==
    /\ Cardinality(Tracked) = 2
    /\ next_port = base_port + 2
    /\ \A i \in Tracked : proc[PortOf(i)] = "running"

\* C15: while a request is outstanding on a transport (sent, its reply not
\* received), no step puts another request on it: the socket stays as it is
\* until it is closed, and no new request reaches the worker's socket.
C15_OneOutstanding ==
    [][ \A p \in Ports :
          sock[p] = "awaiting" =>
             /\ sock'[p] \in {"awaiting", "closed"}
             /\ inbox'[p] \in {inbox[p], "none"} ]_vars

\* send_update was refused on a transport on which a RENDER request is
\* outstanding, its worker running.
C15_Witness ==
    /\ last.op = "send_update"
    /\ last.result = "False"
    /\ \E i \in Tracked :
          /\ sock[PortOf(i)] = "awaiting"
          /\ inbox[PortOf(i)] = "RENDER"
          /\ proc[PortOf(i)] = "running"
          /\ Cardinality(Tracked) = 1

\* The three requests the supervisor makes of a tracked instance.
RequestOps ==
    { <<"send_update", "UPDATE">>, <<"request_render", "RENDER">>,
      <<"update_settings", "SETTINGS_CHANGED">> }

\* The supervisor call returned a reply as its result.
Succeeded(r) == r.result \in {"True", "payload"}

\* C37: a request to an instance in the process table whose worker is running,
\* has handled everything it received and answers in time with a plugin that
\* behaves, succeeds (also after an earlier request to it has timed out).
C37_TimeoutNotFatal ==
    [][ \A i \in Tracked, o \in RequestOps :
          ( /\ last'.op = o[1]
            /\ proc[PortOf(i)] = "running"
            /\ inbox[PortOf(i)] = "none"
            /\ wk[PortOf(i)].plugin # "None"
            /\ Request(o[1], o[2], i, "in_time", Behaves) /\ SupFrame )
          => Succeeded(last') ]_vars

\* C38: a supervisor call returns a reply as its result only when it sent the
\* request on a socket on which nothing was outstanding and the worker handled
\* that very request and answered it in time; a socket that is ready holds no
\* reply of an earlier request.
C38_OwnReply ==
    [][ /\ Succeeded(last') =>
             \A o \in { x \in RequestOps : x[1] = last'.op } :
             \A i \in Tracked, t \in Timings, b \in BehavioursFor(o[2]) :
                \/ /\ sock[PortOf(i)] = "ready"
                   /\ inbox[PortOf(i)] = "none"
                   /\ proc[PortOf(i)] = "running"
                   /\ t = "in_time"
                   /\ handle_message(wk[PortOf(i)], o[2], b).reply = "ok"
                \/ ~(Request(o[1], o[2], i, t, b) /\ SupFrame)
        /\ \A p \in Ports : sock'[p] = "ready" => inbox'[p] = "none" ]_vars

\* request_render has returned the payload of one instance while the late
\* reply to an earlier, timed-out request of the other instance sits unread
\* in that instance's socket.
C38_Witness ==
    /\ last.op = "request_render"
    /\ last.result = "payload"
    /\ Cardinality(Tracked) = 2
    /\ \E j \in Tracked :
          /\ sock[PortOf(j)] = "awaiting"
          /\ inbox[PortOf(j)] = "none"
          /\ proc[PortOf(j)] = "running"

(***************************************************************************)
(* Properties of the worker loop                                           *)
(***************************************************************************)

\* A step of the loop in which a request of the given kind was received.
Iterated(kind) == n_req' = n_req + 1 /\ w_last'.req = kind

\* C16: between two iterations of the loop the worker has sent exactly one
\* reply for every request it received, whatever the request was (a message of
\* any type, or a text that cannot be decoded); it owes no reply, and it has
\* sent no reply that no request asked for.
C16_OneReply ==
    /\ n_rep = n_req
    /\ rep # "must_send"

\* C17: when a handler or the plugin raises, the worker replies ERROR and the
\* loop goes on; the loop ends only in the iteration that handled a SHUTDOWN.
C17_LoopSurvives ==
    [][ /\ (n_req' = n_req + 1 /\ w_last'.raised)
           => /\ w_last'.reply = "error"
              /\ n_rep' = n_rep + 1
              /\ w_pc' = "loop"
              /\ worker'.running
        /\ (w_pc = "loop" /\ w_pc' = "exited")
           => /\ Iterated("SHUTDOWN")
              /\ w_last'.reply = "ok" ]_vars

\* A handler raised while the worker held a started instance, the worker
\* replied ERROR, and the loop is still running with the instance held.
C17_Witness ==
    /\ w_last.raised
    /\ w_last.req \in {"UPDATE", "RENDER", "SETTINGS_CHANGED"}
    /\ w_last.reply = "error"
    /\ w_pc = "loop"
    /\ worker.running
    /\ worker.state = "STARTED"
    /\ n_req = 3
    /\ n_rep = 3

\* C18: an INIT that is answered with ERROR leaves the worker as it was: it
\* holds the plugin reference it held before, and START, UPDATE and RENDER
\* are answered afterwards as they would have been before.
C18_FailedInit ==
    [][ (Iterated("INIT") /\ w_last'.reply = "error")
        => /\ worker' = worker
           /\ \A k \in {"START", "UPDATE", "RENDER"}, b \in HostedBehaviours :
                handle_message(worker', k, b).reply = handle_message(worker, k, b).reply ]_vars

\* C19: START is answered ok only when the instance is INITIALIZED or STOPPED,
\* and the instance is then STARTED; when the worker holds no instance, or an
\* instance that is STARTED, DISPOSED or in ERROR, START is answered ERROR and
\* the worker is unchanged.
C19_StartRequiresState ==
    [][ Iterated("START")
        => /\ worker.state \in {"INITIALIZED", "STOPPED"}
              => (w_last'.reply = "ok" => worker'.state = "STARTED")
           /\ worker.state \in {"none", "STARTED", "DISPOSED", "ERROR"}
              => (w_last'.reply = "error" /\ worker' = worker) ]_vars

\* C20: DISPOSE is always answered ok, and afterwards the worker holds no
\* plugin reference, so that START, UPDATE, RENDER and SETTINGS_CHANGED are
\* answered ERROR.
C20_DisposeAlwaysOk ==
    [][ Iterated("DISPOSE")
        => /\ w_last'.reply = "ok"
           /\ worker'.plugin = "None"
           /\ \A k \in {"START", "UPDATE", "RENDER", "SETTINGS_CHANGED"},
                 b \in HostedBehaviours :
                handle_message(worker', k, b).reply = "error" ]_vars

\* C21: the iteration that handles SHUTDOWN sends the ok reply and ends the
\* loop, and no request is received afterwards; whenever run() ends, _cleanup
\* has called dispose on the instance still held (and only then), and has
\* closed the transport if the worker had one.
C21_ShutdownCleanup ==
    [][ /\ Iterated("SHUTDOWN")
           => /\ w_last'.reply = "ok"
              /\ n_rep' = n_rep + 1
              /\ w_pc' = "exited"
        /\ w_pc = "exited" => UNCHANGED <<worker, rep, n_req, n_rep>>
        /\ (w_pc # "exited" /\ w_pc' = "exited")
           => /\ worker'.plugin # "None"
                 => /\ w_exit'.dispose \in {"returned", "raised"}
                    /\ w_exit'.dispose = "returned" => worker'.state = "DISPOSED"
              /\ worker'.plugin = "None" => w_exit'.dispose = "not_called"
              /\ w_pc = "loop" => (w_exit'.close /\ rep' = "closed")
              /\ w_pc = "start" => (~w_exit'.close /\ worker'.plugin = "None") ]_vars

\* A worker that held a started instance handled SHUTDOWN: it replied ok, left
\* the loop, disposed of the instance and closed the transport.
C21_Witness ==
    /\ w_pc = "exited"
    /\ w_last.req = "SHUTDOWN"
    /\ w_last.reply = "ok"
    /\ n_rep = n_req
    /\ worker.plugin = "instance"
    /\ worker.state = "DISPOSED"
    /\ w_exit = [dispose |-> "returned", close |-> TRUE]
    /\ rep = "closed"

\* C33: an INIT received while the worker holds an instance is not accepted:
\* it constructs no second instance and leaves the held one in place.
C33_OneInstance ==
    [][ ( /\ n_req' = n_req + 1
          /\ w_last'.req = "INIT"
          /\ worker.plugin # "None" )
        => /\ w_last'.reply # "ok"
           /\ w_disposals' = w_disposals ]_vars

\* C39: when the worker has exited after a SHUTDOWN, every instance it
\* constructed has had its dispose run exactly once.
C39_DisposedOnce ==
    ( /\ w_pc = "exited"
      /\ w_last.req = "SHUTDOWN"
      /\ w_exit.dispose # "raised" )
    => \A k \in DOMAIN w_disposals : w_disposals[k] = 1

(***************************************************************************)
(* Properties of the plugin lifecycle                                      *)
(***************************************************************************)

\* The order of the lifecycle states; STARTED and STOPPED share a rank.
LifecycleRank(st) ==
    CASE st = "UNINITIALIZED" -> 0
      [] st = "INITIALIZED" -> 1
      [] st \in {"STARTED", "STOPPED"} -> 2
      [] st \in {"DISPOSED", "ERROR"} -> 3

\* C22: no lifecycle call moves the state backwards (STARTED and STOPPED may
\* alternate); no call changes a state that is DISPOSED or ERROR; start
\* changes the state only from INITIALIZED or STOPPED, stop only from STARTED.
C22_Lifecycle ==
    [][ /\ LifecycleRank(pl_state') >= LifecycleRank(pl_state)
        /\ pl_state \in {"DISPOSED", "ERROR"} => pl_state' = pl_state
        /\ (pl_calls' = pl_calls + 1 /\ pl_call' = "start" /\ pl_state' # pl_state)
           => (pl_state \in {"INITIALIZED", "STOPPED"} /\ pl_state' = "STARTED")
        /\ (pl_calls' = pl_calls + 1 /\ pl_call' = "stop" /\ pl_state' # pl_state)
           => (pl_state = "STARTED" /\ pl_state' = "STOPPED") ]_vars

(***************************************************************************)
(* Properties of the grid layout                                           *)
(***************************************************************************)

\* No two tiles of the list overlap.
NoOverlap(ts) ==
    \A j, k \in 1..Len(ts) : j # k => ~overlaps_with(ts[j], ts[k])

\* C28: no two tiles of a page overlap, whatever their ids; an add_tile,
\* move_tile or resize_tile that returns False leaves the tiles as they were.
C28_NoOverlap ==
    /\ [](\A p \in Pages : NoOverlap(tiles_by_page[p]))
    /\ [][ (g_last'.op \in {"add_tile", "move_tile", "resize_tile"} /\ ~g_last'.result)
           => tiles_by_page' = tiles_by_page ]_vars

(***************************************************************************)
(* Properties of the plugin proxy                                          *)
(***************************************************************************)

\* The render request of the proxy's instance succeeds: the instance has a
\* record, the request leaves, and the running worker replies in time with a
\* decodable message that is not ERROR.
RenderSucceeds(timing, b) ==
    /\ ProxyInstance \in Tracked
    /\ sock[PortOf(ProxyInstance)] = "ready"
    /\ proc[PortOf(ProxyInstance)] = "running"
    /\ timing = "in_time"
    /\ handle_message(wk[PortOf(ProxyInstance)], "RENDER", b).reply = "ok"

\* C23, as claimed: once the proxy of an instance has been disposed, and the
\* supervisor has with that terminated the instance, no later init of the
\* proxy, and so no spawn under that instance_id, succeeds.
C23_NoReuse ==
    ~ ( /\ px_disposed
        /\ px_last = PxRet("init", "None", <<"spawn">>)
        /\ px_initialized
        /\ ProxyInstance \in Tracked )

\* C24: init of an uninitialized proxy calls spawn_plugin once; when that
\* returns False, init raises and the proxy stays uninitialized; init of an
\* initialized proxy calls nothing.  On an uninitialized proxy, update,
\* on_settings_changed and dispose call nothing and leave the supervisor as
\* it is, and get_render_data returns the placeholder.
C24_InitOnce ==
    [][ /\ \A o \in ProxySpawnOutcomes :
              (px_last'.op = "init" /\ proxy_init(o))
              => IF px_initialized
                 THEN /\ px_last'.calls = <<>>
                      /\ px_initialized'
                      /\ UNCHANGED supVars
                 ELSE /\ px_last'.calls = <<"spawn">>
                      /\ last'.op = "spawn"
                      /\ next_port' \in {next_port, next_port + 1}
                      /\ last'.result = "True"
                            => px_initialized' /\ px_last'.result = "None"
                      /\ last'.result # "True"
                            => ~px_initialized' /\ px_last'.result = "raised"
        /\ ( /\ ~px_initialized
             /\ px_last'.op \in {"update", "on_settings_changed", "dispose", "get_render_data"}
             /\ \/ \E t \in Timings, b \in BehavioursFor("UPDATE") : proxy_update(t, b)
                \/ \E s \in SettingsValues, t \in Timings :
                      proxy_on_settings_changed(s, t, Behaves)
                \/ \E o \in TerminateOutcomes : proxy_dispose(o)
                \/ \E t \in Timings, data \in RenderData :
                      proxy_get_render_data(t, Behaves, data) )
           => /\ px_last'.calls = <<>>
              /\ px_last'.result # "raised"
              /\ px_last'.op = "get_render_data" => px_last'.result = "not_initialized"
              /\ UNCHANGED <<supVars, px_initialized, px_settings>> ]_vars

\* A spawn has failed inside init: init raised, the proxy is not initialized.
C24_Witness ==
    /\ px_last = PxRet("init", "raised", <<"spawn">>)
    /\ last.op = "spawn"
    /\ last.result = "False"
    /\ ~px_initialized

\* C25: get_render_data never raises; on an initialized proxy it returns the
\* render-error placeholder whenever the render request fails (no record, the
\* request cannot be sent, a dead worker, no reply in time, an undecodable
\* reply, an ERROR reply) and otherwise the data the worker's plugin produced
\* for this request.
C25_RenderSafe ==
    [][ \A t \in Timings, data \in RenderData :
           \A b \in BehavioursFor("RENDER") :
              \* no step of get_render_data ends otherwise
              ( /\ px_last'.op = "get_render_data"
                /\ \/ px_last'.result = "raised"
                   \/ px_initialized
                         /\ px_last'.result # (IF RenderSucceeds(t, b) THEN data
                                               ELSE "render_error")
                   \/ ~px_initialized /\ px_last'.result # "not_initialized" )
              => ~proxy_get_render_data(t, b, data) ]_vars

\* get_render_data has returned the render-error placeholder for an instance
\* whose worker is dead.
C25_Witness ==
    /\ px_last = PxRet("get_render_data", "render_error", <<"request_render">>)
    /\ px_initialized
    /\ ProxyInstance \in Tracked
    /\ proc[PortOf(ProxyInstance)] = "exited"

\* C26: dispose of an initialized proxy calls terminate_plugin once, after
\* which the instance has no record and the proxy is uninitialized; dispose of
\* an uninitialized proxy (never initialized, or disposed before) calls
\* nothing and changes nothing.
C26_DisposeIdempotent ==
    /\ [](px_last.op = "dispose" => ~px_initialized)
    /\ [][ \A o \in TerminateOutcomes :
              (px_last'.op = "dispose" /\ proxy_dispose(o))
              => IF px_initialized
                 THEN /\ px_last'.calls = <<"terminate">>
                      /\ last'.op = "terminate"
                      /\ last'.removed = (IF ProxyInstance \in Tracked THEN 1 ELSE 0)
                      /\ ProxyInstance \notin Tracked'
                      /\ ~px_initialized'
                 ELSE /\ px_last'.calls = <<>>
                      /\ UNCHANGED <<supVars, px_initialized, px_settings>> ]_vars

\* A proxy that was disposed before has been disposed again: nothing was called.
C26_Witness ==
    /\ px_disposed
    /\ px_last = PxRet("dispose", "None", <<>>)
    /\ ~px_initialized

\* C27, as claimed: when update_settings returns False inside
\* on_settings_changed, nothing is raised and the proxy holds the settings it
\* held before the call.
C27_SettingsKept ==
    [][ \A s \in SettingsValues, t \in Timings :
           \A b \in BehavioursFor("SETTINGS_CHANGED") :
              ( /\ px_last'.op = "on_settings_changed"
                /\ px_initialized
                /\ proxy_on_settings_changed(s, t, b)
                /\ last'.result = "False" )
              => /\ px_last'.result # "raised"
                 /\ px_settings' = px_settings ]_vars

\* C40: a proxy that considers itself initialized has a record for its
\* instance in the supervisor's process table.
C40_ProxyTracked == px_initialized => ProxyInstance \in Tracked

(***************************************************************************)
(* Properties of the termination steps                                     *)
(***************************************************************************)

\* The position of the entry in the log, 0 if it is not there.
LogPos(entry) ==
    IF \E k \in DOMAIN t_log : t_log[k] = entry
    THEN CHOOSE k \in DOMAIN t_log : t_log[k] = entry /\ \A j \in 1..(k - 1) : t_log[j] # entry
    ELSE 0

\* C29: terminate_plugin sends SHUTDOWN before anything else; it sends the
\* terminate signal only right after the first wait timed out, and the kill
\* only right after the wait that follows the terminate signal timed out; once
\* a wait found the process gone, no signal is sent.
C29_Escalation ==
    /\ t_log # <<>> => t_log[1] = "send_shutdown"
    /\ Len(t_log) >= 2 => t_log[2] \in {"exited", "timeout"}
    /\ LogPos("terminate") # 0
       => /\ LogPos("terminate") = 3
          /\ t_log[2] = "timeout"
    /\ LogPos("kill") # 0
       => /\ LogPos("kill") = 5
          /\ LogPos("terminate") = 3
          /\ t_log[4] = "timeout"
    /\ \A k \in DOMAIN t_log :
          t_log[k] = "exited" => \A j \in DOMAIN t_log : j > k => t_log[j] \in {"close", "del"}

\* terminate_plugin went through the whole escalation: SHUTDOWN, a wait that
\* timed out, terminate, a second wait that timed out, kill, close, del.
C29_Witness ==
    /\ t_log = <<"send_shutdown", "timeout", "terminate", "timeout", "kill", "close", "del">>
    /\ t_proc = "exited"
    /\ t_pc = "idle"

(***************************************************************************)
(* Properties of the wire format                                           *)
(***************************************************************************)

\* C9 (round trip): from_json(to_json(m)) does not raise and has the type, the
\* instance_id and the payload of m.
C9_RoundTrip ==
    msg_pc = "decoded" =>
        /\ decoded.ok
        /\ decoded.msg.type = msg.type
        /\ decoded.msg.instance_id = msg.instance_id
        /\ decoded.msg.payload = msg.payload

\* A SETTINGS_CHANGED envelope has made the round trip whose instance_id has a
\* quote and a backslash and whose payload nests a string with escapes.
C9_Witness ==
    /\ msg_pc = "decoded"
    /\ msg.type = "SETTINGS_CHANGED"
    /\ msg.instance_id = Str(<<"\"", "\\">>)
    /\ msg.payload =
          Map(<< << <<"a", "\"", "\\">>,
                    List(<<Str(<<"\\", "n", "\n", "U+00E9">>), Str(<<"\\">>)>>) >> >>)
    /\ decoded.ok

====
